---- MODULE Spec2Model ----
(***************************************************************************)
(* Model of the hotel lookup orchestration (services/hotel_lookup.py),     *)
(* its cache (services/cache_service.py) and the batch executor            *)
(* HotelLookupService.lookup_batch.                                        *)
(*                                                                         *)
(* Strings are sequences of one-character strings, so that lower() and     *)
(* strip() are computed and not assumed.  Optional values use the string   *)
(* "None" for Python's None; confidence scores are integers in tenths      *)
(* (10 = 1.0) with NoConf standing for None.                               *)
(***************************************************************************)
EXTENDS Integers, Sequences, FiniteSets, TLC

\* ---------------------------------------------------------------- bounds
NumRequests == 2        \* requests in the batch handed to lookup_batch
MaxConcurrent == 1      \* the max_concurrent argument of lookup_batch

\* ------------------------------------------------------- value universes
NoneVal == "None"
NoConf == -1
ConfMax == 10           \* le=1.0 of HotelInfoResponse.confidence_score
ConfMin == 0            \* ge=0.0 of HotelInfoResponse.confidence_score
VerifyThreshold == 5    \* verification_confidence > 0.5

Url == "url"
PhoneNo == "phone"
RoomCount == "50"

\* Names the requests are drawn from: two case variants of one hotel and a
\* different hotel.
NamePool == << <<"H", "a">>, <<"h", "a">>, <<"H", "b">> >>

\* HotelSearchRequest (address, city and postcode folded into one field; an
\* absent address is the empty string, which the code's tests treat alike)
HotelSearchRequest(n, a) == [name |-> n, address |-> a]

RequestAt(k) == HotelSearchRequest(NamePool[((k - 1) % Len(NamePool)) + 1], <<>>)

Tasks == 1..NumRequests
Lookups == {1}          \* the slot of the direct lookup_hotel calls

\* ------------------------------------------------------ string functions
LowerChar(c) ==
    CASE c = "H" -> "h"
      [] c = "A" -> "a"
      [] c = "B" -> "b"
      [] OTHER -> c

\* str.lower()
Lower(s) == [k \in DOMAIN s |-> LowerChar(s[k])]

RECURSIVE LStrip(_)
LStrip(s) == IF s # <<>> /\ Head(s) = " " THEN LStrip(Tail(s)) ELSE s

RECURSIVE RStrip(_)
RStrip(s) ==
    IF s # <<>> /\ s[Len(s)] = " " THEN RStrip(SubSeq(s, 1, Len(s) - 1)) ELSE s

\* str.strip()
Strip(s) == RStrip(LStrip(s))

\* HotelLookupService._build_address: None (here the empty string) when no
\* part is present
build_address(request) == request.address

\* CacheService._generate_cache_key: the normalised parts that are joined
\* and hashed (the digest is taken as injective on the joined key)
generate_cache_key(hotel_name, address) ==
    IF address # <<>>
    THEN << Strip(Lower(hotel_name)), Strip(Lower(address)) >>
    ELSE << Strip(Lower(hotel_name)) >>

KeyOf(request) == generate_cache_key(request.name, build_address(request))

CacheKeys == { KeyOf(RequestAt(k)) : k \in 1..Len(NamePool) }

\* --------------------------------------------------------------- records
\* HotelInfoResponse as constructed at the top of lookup_hotel
NewResponse(request) ==
    [ search_name      |-> request.name,
      official_website |-> NoneVal,
      uk_contact_phone |-> NoneVal,
      rooms_min        |-> NoneVal,
      confidence_score |-> NoConf,
      status           |-> "not_found",
      errors           |-> <<>> ]

\* a slot of results[] that holds Python's None
NullResponse ==
    [ search_name      |-> <<>>,
      official_website |-> NoneVal,
      uk_contact_phone |-> NoneVal,
      rooms_min        |-> NoneVal,
      confidence_score |-> NoConf,
      status           |-> NoneVal,
      errors           |-> <<>> ]

IsNull(r) == r.status = NoneVal

\* the placeholder lookup_batch builds for a slot that is still None
Placeholder(request) ==
    [ NewResponse(request) EXCEPT
        !.status = "error",
        !.errors = << "Lookup failed unexpectedly" >> ]

Truthy(v) == v # NoneVal

\* ------------------------------------------- outcomes of the collaborators
BingConfs == {5, 15}        \* the agent's "confidence" is passed on unchecked
ExtractConfs == {3, 8}

\* BingGroundingService.search_hotel_async: {} on failure, else the parsed
\* agent answer, any of whose fields may be null
BingOutcomes ==
    [ found : {TRUE}, official_website : {NoneVal, Url},
      uk_contact_phone : {NoneVal, PhoneNo}, rooms_min : {NoneVal, RoomCount},
      confidence : BingConfs ]
    \cup
    { [ found |-> FALSE, official_website |-> NoneVal,
        uk_contact_phone |-> NoneVal, rooms_min |-> NoneVal, confidence |-> 0 ] }

\* AIExtractorService.extract_hotel_info
Extractions ==
    [ rooms_min : {NoneVal, RoomCount}, uk_phone : {NoneVal, PhoneNo},
      confidence : ExtractConfs ]

\* WebScraperService.deep_scrape_hotel followed by detect_domain_parking
ScrapeOutcomes == {"failed", "parked", "ok"}

\* what happens inside _deep_scrape_and_extract
\* (the extractor hands on the model's JSON unchecked: its "confidence" may
\* be null)
DeepOutcomes ==
    [ kind : {"failed", "parked", "fault"}, extraction : {CHOOSE e \in Extractions : TRUE} ]
    \cup [ kind : {"ok"}, extraction : Extractions ]
    \cup [ kind : {"ok"},
           extraction : [ rooms_min : {NoneVal, RoomCount}, uk_phone : {NoneVal, PhoneNo},
                          confidence : {NoConf} ] ]

\* WebSearchService.search_hotel_website
SearchOutcomes == {"empty", "official", "aggregator"}

\* _try_booking_sites: None, or a result that has a room count
BookingOutcomes ==
    [ found : {TRUE}, rooms_min : {RoomCount}, phone : {NoneVal, PhoneNo} ]
    \cup { [ found |-> FALSE, rooms_min |-> NoneVal, phone |-> NoneVal ] }

\* _try_planning_portal: None, or a result with a room_count
PlanningOutcomes == {NoneVal, RoomCount}

\* AIExtractorService.verify_website_is_correct
VerifyOutcomes ==
    { [ is_match |-> TRUE, confidence |-> 5 ],
      [ is_match |-> FALSE, confidence |-> 3 ],
      [ is_match |-> FALSE, confidence |-> 8 ] }

FaultMsg == "fault"         \* str(e) of the exception caught by lookup_hotel

\* --------------------------------------------------- pieces of lookup_hotel
\* the guard of the cache read and of both cache writes
ShouldUseCacheIgnoringFlag(use_cache, connected) == connected

ShouldUseCache(use_cache, connected) == use_cache /\ connected

\* "if cached_result:"
CacheHitNever(cached) == FALSE

CacheHit(cached) == cached # <<>>

\* pydantic validation of the fields handed to HotelInfoResponse(...)
ValidResponseFields(entry) ==
    \/ entry.confidence_score = NoConf
    \/ (entry.confidence_score >= ConfMin /\ entry.confidence_score <= ConfMax)

CacheMarker == "[Cached result]"

\* the conversion of a cached dict back to a HotelInfoResponse
FromCache(entry) ==
    [ search_name      |-> entry.search_name,
      official_website |-> entry.official_website,
      uk_contact_phone |-> entry.uk_contact_phone,
      rooms_min        |-> entry.rooms_min,
      confidence_score |-> entry.confidence_score,
      status           |-> entry.status,
      errors           |-> << CacheMarker >> \o entry.errors ]

\* _cache_response: the dict written to the cache
cache_response(response) ==
    [ search_name      |-> response.search_name,
      official_website |-> response.official_website,
      uk_contact_phone |-> response.uk_contact_phone,
      rooms_min        |-> response.rooms_min,
      confidence_score |-> response.confidence_score,
      status           |-> response.status,
      errors           |-> response.errors ]

\* the fields of the Bing answer copied into the response
ApplyBing(response, b) ==
    [ response EXCEPT
        !.official_website = b.official_website,
        !.uk_contact_phone = b.uk_contact_phone,
        !.rooms_min = b.rooms_min,
        !.confidence_score = b.confidence ]

NeedsDeepScrape(response) ==
    /\ Truthy(response.official_website)
    /\ (~Truthy(response.rooms_min) \/ ~Truthy(response.uk_contact_phone))

\* status determination of the primary path
PrimaryStatusErrorWhenEmpty(response) ==
    IF Truthy(response.rooms_min) /\ Truthy(response.uk_contact_phone)
       /\ Truthy(response.official_website)
    THEN "success"
    ELSE IF Truthy(response.rooms_min) \/ Truthy(response.uk_contact_phone)
            \/ Truthy(response.official_website)
         THEN "partial"
         ELSE "error"

PrimaryStatus(response) ==
    IF Truthy(response.rooms_min) /\ Truthy(response.uk_contact_phone)
       /\ Truthy(response.official_website)
    THEN "success"
    ELSE IF Truthy(response.rooms_min) \/ Truthy(response.uk_contact_phone)
            \/ Truthy(response.official_website)
         THEN "partial"
         ELSE "not_found"

AddError(response, msg) == [ response EXCEPT !.errors = Append(@, msg) ]

\* _deep_scrape_and_extract
deep_scrape_and_extract(response, o, ai) ==
    CASE o.kind = "failed" -> AddError(response, "Deep scrape failed")
      [] o.kind = "parked" -> AddError(response, "Website appears to be parked - data may be stale")
      [] o.kind = "fault"  -> AddError(response, "Deep scrape error")
      [] OTHER ->
           IF ~ai THEN response
           ELSE LET e == o.extraction
                    r1 == IF ~Truthy(response.rooms_min) /\ Truthy(e.rooms_min)
                          THEN [ response EXCEPT !.rooms_min = e.rooms_min ]
                          ELSE response
                    r2 == IF ~Truthy(r1.uk_contact_phone) /\ Truthy(e.uk_phone)
                          THEN [ r1 EXCEPT !.uk_contact_phone = e.uk_phone ]
                          ELSE r1
                    cur == IF r2.confidence_score = NoConf THEN 0 ELSE r2.confidence_score
                IN  \* a null confidence makes the comparison raise TypeError,
                    \* after the fields were filled; the except clause annotates
                    IF e.confidence = NoConf
                    THEN AddError(r2, "Deep scrape error")
                    ELSE IF e.confidence > cur
                         THEN [ r2 EXCEPT !.confidence_score = e.confidence ]
                         ELSE r2

\* _apply_booking_result
apply_booking_result(response, b) ==
    LET r1 == IF Truthy(b.rooms_min)
              THEN [ response EXCEPT !.rooms_min = b.rooms_min ]
              ELSE response
    IN  IF Truthy(b.phone) /\ ~Truthy(r1.uk_contact_phone)
        THEN [ r1 EXCEPT !.uk_contact_phone = b.phone ]
        ELSE r1

\* _apply_planning_result
apply_planning_result(response, room_count) ==
    IF Truthy(room_count)
    THEN [ response EXCEPT !.rooms_min = room_count ]
    ELSE response

\* the except branch of lookup_hotel
ExceptBranchDropsFields(response, msg) ==
    [ response EXCEPT
        !.status = "error",
        !.official_website = NoneVal,
        !.errors = Append(@, msg) ]

ExceptBranch(response, msg) ==
    [ response EXCEPT !.status = "error", !.errors = Append(@, msg) ]

\* the cache after the except branch: it returns without a cache write
ExceptCacheWrites(store, key, response, enabled) ==
    IF enabled THEN [ store EXCEPT ![key] = << response >> ] ELSE store

ExceptCache(store, key, response, enabled) == store

\* -------------------------------------------------------- call binding
\* Python binds the keywords of a call to the parameters of the callee
\* before the body runs; a keyword the callee does not declare is a
\* TypeError at the call.
Binds(params, kwargs) == kwargs \subseteq params

lookup_hotel_params == { "request", "use_cache" }

lookup_batch_params == { "requests", "delay_seconds", "max_concurrent" }

\* the keywords of the call of lookup_batch: the batch endpoint passes
\* skip_deep_scrape = fast; "absent" is a call of the service method
\* without that keyword
NoFlag == "absent"
BatchKwargs(flag) ==
    { "requests", "max_concurrent" } \cup
    IF flag = NoFlag THEN {} ELSE { "skip_deep_scrape" }

\* the keywords of the call of lookup_hotel in retry_one
RetryLookupKwargs == { "request", "use_cache", "skip_deep_scrape" }

\* ------------------------------------------------------ retry queue data
MaxItems == 2
RaceItems == 1
HISTORY_MAX == 1
MaxClock == 1
MaxCount == 4

max_attempts == 3
backoff_base == 30

ItemIds == 1..MaxItems
Callers == { 1, 2 }
Solo == { 1 }

NoTime == -1
FailedStatuses == { "not_found", "error" }
ResultStatuses == { "success", "partial", "not_found", "error" }
BindErrorMsg == "lookup_hotel() got an unexpected keyword argument 'skip_deep_scrape'"
AlreadyInProgress == "Retry processing already in progress"

\* the result lists handed to enqueue_batch_failures: every list of
\* statuses, and the one list the callers of the concurrent scenario use
AllBatches == UNION { [ 1..n -> ResultStatuses ] : n \in 1..NumRequests }
RaceBatches == { << "success", "not_found" >> }

\* RetryItem.__init__ (the fields the queue logic reads or writes)
RetryItem(id, hotel_name, address, original_status) ==
    [ id |-> id,
      hotel_name |-> hotel_name,
      address |-> address,
      original_status |-> original_status,
      status |-> "pending",
      attempt_count |-> 0,
      max_attempts |-> 3,
      next_retry_at |-> NoTime,
      last_errors |-> <<>>,
      result |-> <<>> ]

\* _calculate_next_retry with utcnow() = now
calculate_next_retryFlat(attempt_count, now) ==
    now + backoff_base

calculate_next_retry(attempt_count, now) ==
    now + backoff_base * (2 ^ attempt_count)

\* enqueue up to the save: the new item
NewItem(id, request, original_status, now) ==
    [ RetryItem(id, request.name, request.address, original_status) EXCEPT
        !.max_attempts = max_attempts,
        !.next_retry_at = calculate_next_retry(0, now) ]

\* the test of enqueue_batch_failures
ShouldEnqueueUnlessSuccess(status) == status # "success"

ShouldEnqueue(status) == status \in FailedStatuses

\* get_item, _save_item, remove_item on the queue store
get_item(store, id) == store[id]
save_item(store, item) == [ store EXCEPT ![item.id] = << item >> ]
remove_item(store, id) == [ store EXCEPT ![id] = <<>> ]

\* get_pending: the ids of the items with status Pending
get_pending(store) ==
    { k \in DOMAIN store : store[k] # <<>> /\ store[k][1].status = "pending" }

\* _move_to_history: the entry, its insertion at the front, and the cut
history_entry(item, now) ==
    [ item |-> item, completed_at |-> now ]
push_history(h, entry) == << entry >> \o h
trim_historyNewest(h) ==
    SubSeq(h, IF Len(h) < HISTORY_MAX THEN 1 ELSE Len(h) - HISTORY_MAX + 1, Len(h))

trim_history(h) == SubSeq(h, 1, IF Len(h) < HISTORY_MAX THEN Len(h) ELSE HISTORY_MAX)

\* the positions of a caller and of a retry_one execution
IdleOp ==
    [ name |-> "none", pc |-> "idle", arg |-> 0, requests |-> <<>>, results |-> <<>>,
      idx |-> 1, enqueued |-> <<>>, tally |-> [ processed |-> 0, succeeded |-> 0,
      still_failed |-> 0, exhausted |-> 0 ], ret |-> NoneVal ]
IdleCtx ==
    [ pc |-> "idle", item |-> <<>>, completed_at |-> NoTime, lookup_ran |-> FALSE,
      caught |-> FALSE ]

\* ------------------------------------------------ Bing grounding service
BingMaxConcurrent == 2   \* max_concurrent of the service is drawn from 1..BingMaxConcurrent
PoolSize == 2            \* thread_pool_size of the service is drawn from 1..PoolSize
max_retries == 3         \* BING_RETRY_MAX
retry_delay_base == 2    \* BING_RETRY_DELAY_BASE

\* what one attempt of search_hotel meets: an agent run that ended with a
\* status and an error message (valid: an assistant message parses to a
\* result), or an exception of some type with some message.  Statuses and
\* messages are drawn in lower case, as the tests of the code compare them.
RunOutcomes ==
    { [ kind |-> "run", status |-> "completed", msg |-> "", valid |-> v ] : v \in BOOLEAN }
    \cup { [ kind |-> "run", status |-> st, msg |-> m, valid |-> FALSE ] :
             st \in { "failed", "cancelled" }, m \in { "", "rate_limit" } }
    \cup { [ kind |-> "exc", status |-> ty, msg |-> m, valid |-> FALSE ] :
             ty \in { "TimeoutError", "ValueError" }, m \in { "", "429" } }

\* _is_retryable_error(status, error_msg)
is_retryable_errorNever(status, error_msg) == FALSE

is_retryable_error(status, error_msg) ==
    \/ status \in { "failed", "expired", "incomplete" }
    \/ error_msg \in { "rate_limit", "429", "throttl", "server_error", "timeout", "503", "502" }

\* _is_retryable_exception(exc), on the type name and the message
is_retryable_exception(exc_name, exc_msg) ==
    \/ exc_name \in { "ConnectionError", "TimeoutError", "ServerError", "HttpResponseError" }
    \/ exc_msg \in { "429", "rate", "throttl", "timeout", "temporarily", "503", "502" }

\* delay = self.retry_delay_base * (2 ** (attempt - 1))
retry_delay(attempt) == retry_delay_base * (2 ^ (attempt - 1))

\* ------------------------------------------------------------------ state
VARIABLES
    requests,        \* requests[i]: the request of task / call i
    useCache,        \* use_cache argument of call i
    pc,              \* position of call i
    resp,            \* the response object of call i
    calls,           \* the collaborator operations call i has invoked
    cachedRead,      \* what the cache read of call i returned (<<>> = None)
    preFault,        \* the response as it was when a fault reached the except branch
    faulted,         \* calls whose try block faulted
    results,         \* the results list of lookup_batch
    semaphore,       \* free permits of the batch semaphore
    batchPc,         \* position of lookup_batch
    cache,           \* the cache store: key -> <<>> or <<entry>>
    is_connected,    \* cache_service is set and connected
    bing_configured, \* bing_service is set and configured
    ai_configured,   \* ai_service.is_configured
    fast,            \* the skip_deep_scrape keyword of the lookup_batch call
    uses_redis,      \* the retry queue was built with a redis client
    queue,           \* the live retry queue: id -> <<>> or <<item>>
    history,         \* the retry history, most recent first
    processing,      \* the _processing flag of the retry queue
    clock,           \* the latest reading of datetime.utcnow()
    nextId,          \* the number of retry items created so far, plus one
    op,              \* op[p]: the queue operation caller p is executing
    ctx,             \* ctx[p][k]: the retry_one execution of caller p on id k
    sem,             \* sem[p]: free permits of the semaphore of p's retry_all_pending
    running,         \* the coroutine that runs without having suspended
    limiter,         \* the Bing service's max_concurrent, thread pool size and free permits
    metrics,         \* the Bing service's request counters
    search,          \* search[c]: the search_hotel_async call of caller c
    progress         \* search_hotels_batch: results, completed and the callback's invocations

vars == << requests, useCache, pc, resp, calls, cachedRead, preFault, faulted,
           results, semaphore, batchPc, cache, is_connected, bing_configured,
           ai_configured, fast, uses_redis, queue, history, processing, clock,
           nextId, op, ctx, sem, running, limiter, metrics, search,
           progress >>

retryVars == << uses_redis, queue, history, processing, clock, nextId, op, ctx, sem, running >>

lookupVars == << requests, useCache, pc, resp, calls, cachedRead, preFault, faulted, cache >>
envVars == << is_connected, bing_configured, ai_configured, fast >>
batchVars == << results, semaphore, batchPc >>
bingVars == << limiter, metrics, search, progress >>

\* The answers the collaborators may give.  The direct calls draw them from
\* the whole outcome sets; the tasks of a batch draw them from a subset that
\* still takes every branch of lookup_hotel.
InBatch == batchPc # "none"

FullBing == [ found |-> TRUE, official_website |-> Url, uk_contact_phone |-> PhoneNo,
              rooms_min |-> RoomCount, confidence |-> 5 ]
FullExtraction == [ rooms_min |-> RoomCount, uk_phone |-> PhoneNo, confidence |-> 8 ]
EmptyExtraction == [ rooms_min |-> NoneVal, uk_phone |-> NoneVal, confidence |-> 3 ]
NoBooking == [ found |-> FALSE, rooms_min |-> NoneVal, phone |-> NoneVal ]

BingAnswers ==
    IF InBatch
    THEN { b \in BingOutcomes :
             \/ ~b.found
             \/ b = FullBing
             \/ b = [ FullBing EXCEPT !.confidence = 15 ]
             \/ b = [ FullBing EXCEPT !.uk_contact_phone = NoneVal, !.rooms_min = NoneVal ] }
    ELSE BingOutcomes

DeepAnswers ==
    IF InBatch
    THEN { o \in DeepOutcomes : o.kind = "failed" \/ (o.kind = "ok" /\ o.extraction = FullExtraction) }
    ELSE DeepOutcomes

SearchAnswers == IF InBatch THEN {"empty", "official"} ELSE SearchOutcomes

ScrapeAnswers == IF InBatch THEN {"parked", "ok"} ELSE ScrapeOutcomes

BookingAnswers == IF InBatch THEN {NoBooking} ELSE BookingOutcomes

PlanningAnswers == IF InBatch THEN {NoneVal} ELSE PlanningOutcomes

VerifyAnswers == IF InBatch THEN { v \in VerifyOutcomes : v.confidence # 3 } ELSE VerifyOutcomes

ExtractAnswers == IF InBatch THEN {FullExtraction, EmptyExtraction} ELSE Extractions

\* the retry queue after construction, with no caller at work
RetryIdle(redis) ==
    /\ uses_redis = redis
    /\ queue = [ k \in ItemIds |-> <<>> ]
    /\ history = <<>>
    /\ processing = FALSE
    /\ clock = 0
    /\ nextId = 1
    /\ op = [ p \in Callers |-> IdleOp ]
    /\ ctx = [ p \in Callers |-> [ k \in ItemIds |-> IdleCtx ] ]
    /\ sem = [ p \in Callers |-> 0 ]
    /\ running = <<>>

\* the Bing service after construction built with max_concurrent m and
\* thread_pool_size w: the semaphore holds m permits, the counters are zero
\* and no search has been called
BingIdle(m, w) ==
    /\ limiter = [ max_concurrent |-> m, pool_size |-> w, permits |-> m ]
    /\ metrics = [ total |-> 0, successful |-> 0, failed |-> 0, retries |-> 0 ]
    /\ search = [ c \in Callers |->
                    [ pc |-> "idle", attempt |-> 0, reg |-> 0, ctr |-> "none",
                      then |-> "none", last |-> <<>>, slept |-> <<>>, ret |-> NoneVal ] ]
    /\ progress = [ results |-> [ c \in Callers |-> NoneVal ], completed |-> 0,
                    log |-> <<>> ]


\* positions inside lookup_hotel
LookupPcs == { "cache_check", "primary", "deep", "primary_finish", "websearch",
               "scrape", "verify", "extract", "final_cache" }

\* positions inside the try block at which a collaborator call can raise
TryPcs == { "primary", "websearch", "scrape", "verify", "extract" }

StageOf(p) ==
    CASE p = "primary" -> "bing"
      [] p = "websearch" -> "websearch"
      [] p = "scrape" -> "scrape"
      [] p = "verify" -> "verify"
      [] OTHER -> "extract"

InitCommon(ids) ==
    /\ pc = [ i \in ids |-> "idle" ]
    /\ resp = [ i \in ids |-> NullResponse ]
    /\ calls = [ i \in ids |-> {} ]
    /\ cachedRead = [ i \in ids |-> <<>> ]
    /\ preFault = [ i \in ids |-> NullResponse ]
    /\ faulted = {}
    /\ cache = [ k \in CacheKeys |-> <<>> ]
    /\ is_connected \in BOOLEAN
    /\ bing_configured \in BOOLEAN
    /\ ai_configured \in BOOLEAN
    /\ RetryIdle(FALSE)
    /\ BingIdle(1, 1)

\* lookup_batch(requests, max_concurrent): results pre-allocated, semaphore
\* created, one task per request; every task calls lookup_hotel(request)
Init ==
    /\ InitCommon(Tasks)
    /\ requests = [ i \in Tasks |-> RequestAt(i) ]
    /\ useCache = [ i \in Tasks |-> TRUE ]
    /\ results = [ i \in Tasks |-> NullResponse ]
    /\ semaphore = MaxConcurrent
    /\ batchPc = "called"
    /\ fast \in { NoFlag, "true", "false" }

\* the requests of the direct calls: case variants of one hotel
LookupRequests == { RequestAt(1), RequestAt(2) }

\* successive direct calls of lookup_hotel(request, use_cache)
LookupInit ==
    /\ InitCommon(Lookups)
    /\ requests \in [ Lookups -> LookupRequests ]
    /\ useCache = [ i \in Lookups |-> TRUE ]
    /\ results = [ i \in Lookups |-> NullResponse ]
    /\ semaphore = 0
    /\ batchPc = "none"
    /\ fast = NoFlag

\* search_hotel_website is an ordinary (blocking) function called without
\* await: from the moment a lookup reaches it until it has returned, the
\* event loop runs nothing else
Unblocked(i) == \A j \in DOMAIN pc \ {i} : pc[j] # "websearch"

SetPc(i, p) == pc' = [ pc EXCEPT ![i] = p ]
SetResp(i, r) == resp' = [ resp EXCEPT ![i] = r ]
AddCalls(i, S) == calls' = [ calls EXCEPT ![i] = @ \cup S ]

\* ----------------------------------------------------- lookup_hotel steps
\* Step 0: the cache check.  get_hotel_lookup returns None when the read
\* faults; the conversion of a hit is outside the try block.
CacheCheck(i) ==
    /\ Unblocked(i)
    /\ pc[i] = "cache_check"
    /\ IF ShouldUseCache(useCache[i], is_connected)
       THEN \E readOk \in BOOLEAN :
              LET cached == IF readOk THEN cache[KeyOf(requests[i])] ELSE <<>>
              IN  /\ AddCalls(i, {"cache_get"})
                  /\ cachedRead' = [ cachedRead EXCEPT ![i] = cached ]
                  /\ IF CacheHit(cached)
                     THEN IF ValidResponseFields(cached[1])
                          THEN SetResp(i, FromCache(cached[1])) /\ SetPc(i, "returned")
                          ELSE SetPc(i, "raised") /\ UNCHANGED resp
                     ELSE SetResp(i, NewResponse(requests[i])) /\ SetPc(i, "primary")
       ELSE /\ SetResp(i, NewResponse(requests[i]))
            /\ SetPc(i, "primary")
            /\ UNCHANGED << calls, cachedRead >>
    /\ UNCHANGED << requests, useCache, preFault, faulted, cache, envVars, bingVars, batchVars, retryVars >>

\* Step 1: Bing grounding
PrimarySearch(i) ==
    /\ Unblocked(i)
    /\ pc[i] = "primary"
    /\ IF bing_configured
       THEN \E b \in BingAnswers :
              /\ AddCalls(i, {"bing"})
              /\ IF b.found
                 THEN LET r == ApplyBing(resp[i], b)
                      IN  /\ SetResp(i, r)
                          /\ SetPc(i, IF NeedsDeepScrape(r) THEN "deep" ELSE "primary_finish")
                 ELSE SetPc(i, "websearch") /\ UNCHANGED resp
       ELSE SetPc(i, "websearch") /\ UNCHANGED << resp, calls >>
    /\ UNCHANGED << requests, useCache, cachedRead, preFault, faulted, cache, envVars, bingVars, batchVars, retryVars >>

DeepScrape(i) ==
    /\ Unblocked(i)
    /\ pc[i] = "deep"
    /\ \E o \in DeepAnswers :
         /\ SetResp(i, deep_scrape_and_extract(resp[i], o, ai_configured))
         /\ AddCalls(i, {"scrape"} \cup
                        IF o.kind = "ok" /\ ai_configured THEN {"extract"} ELSE {})
    /\ SetPc(i, "primary_finish")
    /\ UNCHANGED << requests, useCache, cachedRead, preFault, faulted, cache, envVars, bingVars, batchVars, retryVars >>

\* a cache write whose failed set evicts the entry it was to replace
CacheWriteFaultEvicts(i, r) ==
    IF ShouldUseCache(useCache[i], is_connected)
    THEN /\ AddCalls(i, {"cache_set"})
         /\ \E writeOk \in BOOLEAN :
              cache' = [ cache EXCEPT ![KeyOf(requests[i])] =
                           IF writeOk THEN << cache_response(r) >> ELSE <<>> ]
    ELSE UNCHANGED << calls, cache >>

\* the cache write shared by both paths: _cache_response swallows a failed set
CacheWrite(i, r) ==
    IF ShouldUseCache(useCache[i], is_connected)
    THEN /\ AddCalls(i, {"cache_set"})
         /\ \E writeOk \in BOOLEAN :
              cache' = IF writeOk
                       THEN [ cache EXCEPT ![KeyOf(requests[i])] = << cache_response(r) >> ]
                       ELSE cache
    ELSE UNCHANGED << calls, cache >>

\* status determination, cache write and return of the primary path
PrimaryFinish(i) ==
    /\ Unblocked(i)
    /\ pc[i] = "primary_finish"
    /\ LET r == [ resp[i] EXCEPT !.status = PrimaryStatus(resp[i]) ]
       IN  SetResp(i, r) /\ CacheWrite(i, r)
    /\ SetPc(i, "returned")
    /\ UNCHANGED << requests, useCache, cachedRead, preFault, faulted, envVars, bingVars, batchVars, retryVars >>

\* Step 1b: fallback web search; no results is an early return
WebSearch(i) ==
    /\ Unblocked(i)
    /\ pc[i] = "websearch"
    /\ AddCalls(i, {"websearch"})
    /\ \E o \in SearchAnswers :
         CASE o = "empty" ->
                /\ SetResp(i, AddError([ resp[i] EXCEPT !.status = "not_found" ],
                                       "No search results found for this hotel"))
                /\ SetPc(i, "returned")
           [] o = "official" ->
                /\ SetResp(i, [ resp[i] EXCEPT !.official_website = Url ])
                /\ SetPc(i, "scrape")
           [] OTHER ->
                /\ SetResp(i, [ AddError(resp[i], "Could not find official website, using best available result")
                                  EXCEPT !.official_website = Url ])
                /\ SetPc(i, "scrape")
    /\ UNCHANGED << requests, useCache, cachedRead, preFault, faulted, cache, envVars, bingVars, batchVars, retryVars >>

\* a scrape step that goes on to verification after a parked domain
ScrapeParkedContinues(i) ==
    /\ Unblocked(i)
    /\ pc[i] = "scrape"
    /\ \E o \in ScrapeAnswers, b \in BookingAnswers :
         CASE o = "failed" ->
                LET r0 == AddError([ resp[i] EXCEPT !.status = "partial" ], "Failed to scrape website")
                IN  /\ SetResp(i, IF b.found THEN apply_booking_result(r0, b) ELSE r0)
                    /\ AddCalls(i, {"scrape", "booking"})
                    /\ SetPc(i, "returned")
           [] o = "parked" ->
                LET r0 == [ AddError([ resp[i] EXCEPT !.status = "partial" ],
                                     "Website appears to be a parked domain")
                              EXCEPT !.official_website = NoneVal ]
                IN  /\ SetResp(i, IF b.found
                                  THEN AddError(apply_booking_result(r0, b), "Room count sourced from booking site")
                                  ELSE r0)
                    /\ AddCalls(i, {"scrape", "booking"})
                    /\ SetPc(i, IF ai_configured THEN "verify" ELSE "extract")
           [] OTHER ->
                /\ b.found = FALSE
                /\ AddCalls(i, {"scrape"})
                /\ SetPc(i, IF ai_configured THEN "verify" ELSE "extract")
                /\ UNCHANGED resp
    /\ UNCHANGED << requests, useCache, cachedRead, preFault, faulted, cache, envVars, bingVars, batchVars, retryVars >>

\* Step 2: scrape and parking check; both failures try the booking sites
\* and return early
Scrape(i) ==
    /\ Unblocked(i)
    /\ pc[i] = "scrape"
    /\ \E o \in ScrapeAnswers, b \in BookingAnswers :
         CASE o = "failed" ->
                LET r0 == AddError([ resp[i] EXCEPT !.status = "partial" ], "Failed to scrape website")
                IN  /\ SetResp(i, IF b.found THEN apply_booking_result(r0, b) ELSE r0)
                    /\ AddCalls(i, {"scrape", "booking"})
                    /\ SetPc(i, "returned")
           [] o = "parked" ->
                LET r0 == [ AddError([ resp[i] EXCEPT !.status = "partial" ],
                                     "Website appears to be a parked domain")
                              EXCEPT !.official_website = NoneVal ]
                IN  /\ SetResp(i, IF b.found
                                  THEN AddError(apply_booking_result(r0, b), "Room count sourced from booking site")
                                  ELSE r0)
                    /\ AddCalls(i, {"scrape", "booking"})
                    /\ SetPc(i, "returned")
           [] OTHER ->
                /\ b.found = FALSE
                /\ AddCalls(i, {"scrape"})
                /\ SetPc(i, IF ai_configured THEN "verify" ELSE "extract")
                /\ UNCHANGED resp
    /\ UNCHANGED << requests, useCache, cachedRead, preFault, faulted, cache, envVars, bingVars, batchVars, retryVars >>

\* Step 3: verification (only when the AI service is configured)
Verify(i) ==
    /\ Unblocked(i)
    /\ pc[i] = "verify"
    /\ \E v \in VerifyAnswers, b \in BookingAnswers :
         IF v.is_match
         THEN /\ b.found = FALSE
              /\ AddCalls(i, {"verify"})
              /\ SetPc(i, "extract")
              /\ UNCHANGED resp
         ELSE LET r0 == [ AddError(resp[i], "Website may not match hotel")
                            EXCEPT !.official_website = NoneVal ]
              IN  IF v.confidence > VerifyThreshold
                  THEN /\ AddCalls(i, {"verify", "booking"})
                       /\ SetPc(i, "returned")
                       /\ IF b.found
                          THEN SetResp(i, AddError([ apply_booking_result(r0, b) EXCEPT !.status = "partial" ],
                                                   "Data sourced from booking site as fallback"))
                          ELSE SetResp(i, AddError([ r0 EXCEPT !.status = "not_found" ],
                                                   "Could not find hotel information from any source"))
                  ELSE /\ b.found = FALSE
                       /\ AddCalls(i, {"verify"})
                       /\ SetPc(i, "extract")
                       /\ SetResp(i, r0)
    /\ UNCHANGED << requests, useCache, cachedRead, preFault, faulted, cache, envVars, bingVars, batchVars, retryVars >>

\* Step 4: extraction and final status of the fallback path
Extract(i) ==
    /\ Unblocked(i)
    /\ pc[i] = "extract"
    /\ \E e \in ExtractAnswers, b \in BookingAnswers, pl \in PlanningAnswers :
         LET r0 == [ resp[i] EXCEPT
                       !.rooms_min = e.rooms_min,
                       !.uk_contact_phone = e.uk_phone,
                       !.confidence_score = e.confidence ]
         IN  IF Truthy(r0.rooms_min) /\ Truthy(r0.uk_contact_phone)
             THEN /\ b.found = FALSE /\ pl = NoneVal
                  /\ SetResp(i, [ r0 EXCEPT !.status = "success" ])
                  /\ AddCalls(i, {"extract"})
             ELSE IF Truthy(r0.rooms_min) \/ Truthy(r0.uk_contact_phone)
             THEN /\ b.found = FALSE /\ pl = NoneVal
                  /\ SetResp(i, [ r0 EXCEPT !.status = "partial" ])
                  /\ AddCalls(i, {"extract"})
             ELSE LET r1 == AddError([ r0 EXCEPT !.status = "partial" ],
                                     "Could not extract room count or phone number from website")
                      r2 == IF b.found
                            THEN AddError(apply_booking_result(r1, b), "Room count sourced from booking site")
                            ELSE r1
                  IN  IF Truthy(r2.rooms_min)
                      THEN /\ pl = NoneVal
                           /\ SetResp(i, r2)
                           /\ AddCalls(i, {"extract", "booking"})
                      ELSE /\ SetResp(i, IF Truthy(pl)
                                         THEN AddError(apply_planning_result(r2, pl), "Room count sourced from planning portal")
                                         ELSE r2)
                           /\ AddCalls(i, {"extract", "booking", "planning"})
    /\ SetPc(i, "final_cache")
    /\ UNCHANGED << requests, useCache, cachedRead, preFault, faulted, cache, envVars, bingVars, batchVars, retryVars >>

\* the cache write and return at the end of the fallback path
FallbackFinish(i) ==
    /\ Unblocked(i)
    /\ pc[i] = "final_cache"
    /\ CacheWrite(i, resp[i])
    /\ SetPc(i, "returned")
    /\ UNCHANGED << requests, useCache, resp, cachedRead, preFault, faulted, envVars, bingVars, batchVars, retryVars >>

\* a collaborator call inside the try block raises: the except branch
Fault(i) ==
    /\ Unblocked(i)
    /\ pc[i] \in TryPcs
    /\ pc[i] = "primary" => bing_configured
    /\ AddCalls(i, {StageOf(pc[i])})
    /\ preFault' = [ preFault EXCEPT ![i] = resp[i] ]
    /\ faulted' = faulted \cup {i}
    /\ SetResp(i, ExceptBranch(resp[i], FaultMsg))
    /\ cache' = ExceptCache(cache, KeyOf(requests[i]), ExceptBranch(resp[i], FaultMsg),
                            ShouldUseCache(useCache[i], is_connected))
    /\ SetPc(i, "returned")
    /\ UNCHANGED << requests, useCache, cachedRead, envVars, bingVars, batchVars, retryVars >>

\* ------------------------------------------------------ lookup_batch steps
\* the call of lookup_batch: a keyword it does not declare raises before
\* any task is created (the batch endpoint answers HTTP 500)
Enter ==
    /\ batchPc = "called"
    /\ batchPc' = IF Binds(lookup_batch_params, BatchKwargs(fast)) THEN "running" ELSE "raised"
    /\ UNCHANGED << lookupVars, envVars, bingVars, results, semaphore, retryVars >>

\* "async with semaphore": asyncio wakes waiters in creation order
CanAcquireAlways(permits) == TRUE

CanAcquire(permits) == permits > 0

Acquire(i) ==
    /\ Unblocked(i)
    /\ batchPc = "running"
    /\ pc[i] = "idle"
    /\ \A j \in Tasks : j < i => pc[j] # "idle"
    /\ CanAcquire(semaphore)
    /\ semaphore' = semaphore - 1
    /\ SetPc(i, "cache_check")
    /\ UNCHANGED << requests, useCache, resp, calls, cachedRead, preFault, faulted,
                    cache, envVars, bingVars, results, batchPc, retryVars >>

\* lookup_hotel returned: results[index] = result, then the delay
Complete(i) ==
    /\ Unblocked(i)
    /\ batchPc = "running"
    /\ pc[i] = "returned"
    /\ results' = [ results EXCEPT ![i] = resp[i] ]
    /\ SetPc(i, "sleep")
    /\ UNCHANGED << requests, useCache, resp, calls, cachedRead, preFault, faulted,
                    cache, envVars, bingVars, semaphore, batchPc, retryVars >>

\* the delay is over: the task leaves the "async with" block
Release(i) ==
    /\ Unblocked(i)
    /\ batchPc = "running"
    /\ pc[i] = "sleep"
    /\ semaphore' = semaphore + 1
    /\ SetPc(i, "done")
    /\ UNCHANGED << requests, useCache, resp, calls, cachedRead, preFault, faulted,
                    cache, envVars, bingVars, results, batchPc, retryVars >>

\* a task that raises keeps its permit
TaskFaultKeepsPermit(i) ==
    /\ Unblocked(i)
    /\ batchPc = "running"
    /\ pc[i] = "raised"
    /\ SetPc(i, "failed")
    /\ UNCHANGED << requests, useCache, resp, calls, cachedRead, preFault, faulted,
                    cache, envVars, bingVars, results, semaphore, batchPc, retryVars >>

\* lookup_hotel raised: the exception leaves the "async with" block and is
\* collected by gather(return_exceptions=True)
TaskFault(i) ==
    /\ Unblocked(i)
    /\ batchPc = "running"
    /\ pc[i] = "raised"
    /\ semaphore' = semaphore + 1
    /\ SetPc(i, "failed")
    /\ UNCHANGED << requests, useCache, resp, calls, cachedRead, preFault, faulted,
                    cache, envVars, bingVars, results, batchPc, retryVars >>

\* the loop that replaces the slots still None
FillNoneSkips(res, reqs) == res

FillNone(res, reqs) ==
    [ i \in DOMAIN res |-> IF IsNull(res[i]) THEN Placeholder(reqs[i]) ELSE res[i] ]

\* gather is over: fill the empty slots and return results
Finish ==
    /\ batchPc = "running"
    /\ \A i \in Tasks : pc[i] \in {"done", "failed"}
    /\ results' = FillNone(results, requests)
    /\ batchPc' = "done"
    /\ UNCHANGED << lookupVars, envVars, bingVars, semaphore, retryVars >>

Next ==
    \/ Enter
    \/ \E i \in Tasks : Acquire(i)
    \/ \E i \in Tasks : CacheCheck(i)
    \/ \E i \in Tasks : PrimarySearch(i)
    \/ \E i \in Tasks : DeepScrape(i)
    \/ \E i \in Tasks : PrimaryFinish(i)
    \/ \E i \in Tasks : WebSearch(i)
    \/ \E i \in Tasks : Scrape(i)
    \/ \E i \in Tasks : Verify(i)
    \/ \E i \in Tasks : Extract(i)
    \/ \E i \in Tasks : FallbackFinish(i)
    \/ \E i \in Tasks : Fault(i)
    \/ \E i \in Tasks : Complete(i)
    \/ \E i \in Tasks : Release(i)
    \/ \E i \in Tasks : TaskFault(i)
    \/ Finish

Spec == Init /\ [][Next]_vars

\* lookup_batch called with max_concurrent = len(requests): every task is
\* in flight at once
ConcInit ==
    /\ InitCommon(Tasks)
    /\ requests = [ i \in Tasks |-> RequestAt(i) ]
    /\ useCache = [ i \in Tasks |-> TRUE ]
    /\ results = [ i \in Tasks |-> NullResponse ]
    /\ semaphore = NumRequests
    /\ batchPc = "called"
    /\ fast = NoFlag

ConcSpec == ConcInit /\ [][Next]_vars

\* ------------------------------------------- direct calls of lookup_hotel
\* the endpoint calls lookup_hotel(request, use_cache = not skip_cache);
\* a call starts when the previous one is over, and any number of calls
\* follow one another on the same cache
Start(i) ==
    /\ Unblocked(i)
    /\ batchPc = "none"
    /\ pc[i] \in {"idle", "returned", "raised"}
    /\ \E rq \in LookupRequests, uc \in BOOLEAN :
         /\ requests' = [ requests EXCEPT ![i] = rq ]
         /\ useCache' = [ useCache EXCEPT ![i] = uc ]
    /\ SetPc(i, "cache_check")
    /\ resp' = [ resp EXCEPT ![i] = NullResponse ]
    /\ calls' = [ calls EXCEPT ![i] = {} ]
    /\ cachedRead' = [ cachedRead EXCEPT ![i] = <<>> ]
    /\ preFault' = [ preFault EXCEPT ![i] = NullResponse ]
    /\ faulted' = faulted \ {i}
    /\ UNCHANGED << cache, envVars, bingVars, batchVars, retryVars >>

LookupNext ==
    \/ \E i \in Lookups : Start(i)
    \/ \E i \in Lookups : CacheCheck(i)
    \/ \E i \in Lookups : PrimarySearch(i)
    \/ \E i \in Lookups : DeepScrape(i)
    \/ \E i \in Lookups : PrimaryFinish(i)
    \/ \E i \in Lookups : WebSearch(i)
    \/ \E i \in Lookups : Scrape(i)
    \/ \E i \in Lookups : Verify(i)
    \/ \E i \in Lookups : Extract(i)
    \/ \E i \in Lookups : FallbackFinish(i)
    \/ \E i \in Lookups : Fault(i)

LookupSpec == LookupInit /\ [][LookupNext]_vars

\* ------------------------------------------------------ retry queue steps
\* Coroutines are named << caller, id >>; << p, 0 >> is caller p's own
\* handler.  A storage call suspends only on the redis backend: the
\* in-memory backend answers at once and the coroutine runs on to its next
\* real suspension.
MayRun(me) == running = <<>> \/ running = me
AfterStorage(me) == running' = IF uses_redis THEN <<>> ELSE me
CanCall(p) == running = <<>> /\ op[p].pc = "idle"

\* the in-memory backend hands out the live item object: a write to a field
\* shows in the queue while the object is still stored there
Alias(store, item) ==
    IF ~uses_redis /\ store[item.id] # <<>> THEN save_item(store, item) ELSE store

\* the failing results of a batch from position from on
FailingFrom(res, from) == { i \in from..Len(res) : ShouldEnqueue(res[i]) }
First(S) == CHOOSE i \in S : \A j \in S : i <= j

\* the items the running batches have still to create
ToCreate ==
    Cardinality({ pi \in Callers \X (1..NumRequests) :
                    /\ op[pi[1]].pc = "loop"
                    /\ pi[2] \in FailingFrom(op[pi[1]].results, op[pi[1]].idx) })

\* enqueue_batch_failures(results, requests) is called; with no failure the
\* loop ends at once
EnqueueBatchCall(p, cap, batches) ==
    /\ CanCall(p)
    /\ \E res \in batches :
         /\ Cardinality(FailingFrom(res, 1)) + ToCreate <= cap + 1 - nextId
         /\ op' = [ op EXCEPT ![p] =
                      IF FailingFrom(res, 1) = {}
                      THEN IdleOp
                      ELSE [ IdleOp EXCEPT !.name = "enqueue_batch_failures",
                                           !.pc = "loop",
                                           !.requests = [ i \in 1..Len(res) |-> RequestAt(i) ],
                                           !.results = res ] ]
         /\ running' = IF uses_redis \/ FailingFrom(res, 1) = {} THEN <<>> ELSE << p, 0 >>
    /\ UNCHANGED << lookupVars, envVars, bingVars, batchVars, uses_redis, queue, history,
                    processing, clock, nextId, ctx, sem >>

\* one enqueue of the loop: the item is built and saved; after the last
\* failure the list of new items is returned
EnqueueBatchStep(p) ==
    /\ op[p].name = "enqueue_batch_failures"
    /\ op[p].pc = "loop"
    /\ MayRun(<< p, 0 >>)
    /\ LET o == op[p]
           i == First(FailingFrom(o.results, o.idx))
           last == FailingFrom(o.results, i + 1) = {}
       IN  \E t \in clock..MaxClock :
             /\ clock' = t
             /\ queue' = save_item(queue, NewItem(nextId, o.requests[i], o.results[i], t))
             /\ nextId' = nextId + 1
             /\ op' = [ op EXCEPT ![p] =
                          IF last THEN IdleOp
                          ELSE [ o EXCEPT !.idx = i + 1, !.enqueued = Append(@, nextId) ] ]
             /\ IF last THEN running' = <<>> ELSE AfterStorage(<< p, 0 >>)
    /\ UNCHANGED << lookupVars, envVars, bingVars, batchVars, uses_redis, history, processing, ctx, sem >>

\* retry_one returns status (None when the item is not in the queue): a
\* direct call hands it to the caller; a task of retry_all_pending counts
\* it and leaves the "async with" block
Tally(tally, status) ==
    IF status = NoneVal THEN tally
    ELSE [ tally EXCEPT
             !.processed = @ + 1,
             !.succeeded = IF status = "succeeded" THEN @ + 1 ELSE @,
             !.exhausted = IF status = "exhausted" THEN @ + 1 ELSE @,
             !.still_failed = IF status \notin { "succeeded", "exhausted" } THEN @ + 1 ELSE @ ]

Return(p, k, status) ==
    /\ running' = <<>>
    /\ IF op[p].name = "retry_one"
       THEN /\ op' = [ op EXCEPT ![p] = IdleOp ]
            /\ ctx' = [ ctx EXCEPT ![p][k] = IdleCtx ]
            /\ UNCHANGED sem
       ELSE /\ op' = [ op EXCEPT ![p].tally = Tally(@, status) ]
            /\ ctx' = [ ctx EXCEPT ![p][k] = [ IdleCtx EXCEPT !.pc = "done" ] ]
            /\ sem' = [ sem EXCEPT ![p] = @ + 1 ]

\* retry_one(item_id) is called
RetryOneCall(p, k) ==
    /\ CanCall(p)
    /\ k < nextId
    /\ op' = [ op EXCEPT ![p] = [ IdleOp EXCEPT !.name = "retry_one", !.pc = "running", !.arg = k ] ]
    /\ ctx' = [ ctx EXCEPT ![p][k] = [ IdleCtx EXCEPT !.pc = "get" ] ]
    /\ AfterStorage(<< p, k >>)
    /\ UNCHANGED << lookupVars, envVars, bingVars, batchVars, uses_redis, queue, history,
                    processing, clock, nextId, sem >>

\* item = await self.get_item(item_id); a missing item returns None,
\* otherwise the item is marked Retrying and its attempt counted
GetItem(p, k) ==
    /\ ctx[p][k].pc = "get"
    /\ MayRun(<< p, k >>)
    /\ LET got == get_item(queue, k)
       IN  /\ got # <<>> => got[1].attempt_count < MaxCount
           /\ IF got = <<>>
              THEN /\ Return(p, k, NoneVal)
                   /\ UNCHANGED queue
              ELSE LET item == [ got[1] EXCEPT !.status = "retrying", !.attempt_count = @ + 1 ]
                   IN  /\ ctx' = [ ctx EXCEPT ![p][k].pc = "save_retrying", ![p][k].item = << item >> ]
                       /\ queue' = Alias(queue, item)
                       /\ AfterStorage(<< p, k >>)
                       /\ UNCHANGED << op, sem >>
    /\ UNCHANGED << lookupVars, envVars, bingVars, batchVars, uses_redis, history, processing, clock, nextId >>

\* await self._save_item(item), with the item Retrying
SaveRetrying(p, k) ==
    /\ ctx[p][k].pc = "save_retrying"
    /\ MayRun(<< p, k >>)
    /\ queue' = save_item(queue, ctx[p][k].item[1])
    /\ ctx' = [ ctx EXCEPT ![p][k].pc = "lookup" ]
    /\ AfterStorage(<< p, k >>)
    /\ UNCHANGED << lookupVars, envVars, bingVars, batchVars, uses_redis, history, processing,
                    clock, nextId, op, sem >>

\* the branches of retry_one after the lookup: outcome is the status of
\* the result, or "raise" for the except branch
after_lookup(item, outcome, msg, now) ==
    IF outcome \in { "success", "partial" }
    THEN [ item EXCEPT !.status = "succeeded",
                       !.result = << [ status |-> outcome ] >>,
                       !.last_errors = <<>> ]
    ELSE LET failed == [ item EXCEPT !.last_errors = << msg >> ]
         IN  IF failed.attempt_count >= failed.max_attempts
             THEN [ failed EXCEPT !.status = "exhausted" ]
             ELSE [ failed EXCEPT !.status = "pending",
                                  !.next_retry_at = calculate_next_retry(failed.attempt_count, now) ]

\* lookup_service.lookup_hotel(request, use_cache=False, skip_deep_scrape=False):
\* the lookup runs when the call binds; a call that does not bind raises
\* inside the try block
Lookup(p, k) ==
    /\ ctx[p][k].pc = "lookup"
    /\ MayRun(<< p, k >>)
    /\ \E t \in clock..MaxClock :
       \E outcome \in IF Binds(lookup_hotel_params, RetryLookupKwargs)
                      THEN ResultStatuses \cup { "raise" } ELSE { "raise" } :
         LET ran == Binds(lookup_hotel_params, RetryLookupKwargs)
             item == after_lookup(ctx[p][k].item[1], outcome,
                                  IF ran THEN FaultMsg ELSE BindErrorMsg, t)
         IN  /\ clock' = IF item.status = "pending" THEN t ELSE clock
             /\ item.status # "pending" => t = clock
             /\ ctx' = [ ctx EXCEPT ![p][k].pc = IF item.status = "pending"
                                                  THEN "save_pending" ELSE "remove",
                                    ![p][k].item = << item >>,
                                    ![p][k].lookup_ran = ran ]
             /\ queue' = Alias(queue, item)
    /\ AfterStorage(<< p, k >>)
    /\ UNCHANGED << lookupVars, envVars, bingVars, batchVars, uses_redis, history, processing,
                    nextId, op, sem >>

\* await self._save_item(item), with the item Pending again; retry_one
\* returns item.to_dict()
SavePending(p, k) ==
    /\ ctx[p][k].pc = "save_pending"
    /\ MayRun(<< p, k >>)
    /\ queue' = save_item(queue, ctx[p][k].item[1])
    /\ Return(p, k, ctx[p][k].item[1].status)
    /\ UNCHANGED << lookupVars, envVars, bingVars, batchVars, uses_redis, history, processing,
                    clock, nextId >>

\* _move_to_history: await self.remove_item(item.id), then the entry is built
MoveRemove(p, k) ==
    /\ ctx[p][k].pc = "remove"
    /\ MayRun(<< p, k >>)
    /\ queue' = remove_item(queue, k)
    /\ \E t \in clock..MaxClock :
         /\ clock' = t
         /\ ctx' = [ ctx EXCEPT ![p][k].pc = "push", ![p][k].completed_at = t ]
    /\ AfterStorage(<< p, k >>)
    /\ UNCHANGED << lookupVars, envVars, bingVars, batchVars, uses_redis, history, processing,
                    nextId, op, sem >>

\* _move_to_history: lpush / insert(0, entry)
MovePush(p, k) ==
    /\ ctx[p][k].pc = "push"
    /\ MayRun(<< p, k >>)
    /\ history' = push_history(history, history_entry(ctx[p][k].item[1], ctx[p][k].completed_at))
    /\ ctx' = [ ctx EXCEPT ![p][k].pc = "trim" ]
    /\ AfterStorage(<< p, k >>)
    /\ UNCHANGED << lookupVars, envVars, bingVars, batchVars, uses_redis, queue, processing,
                    clock, nextId, op, sem >>

\* _move_to_history: ltrim / the slice; retry_one returns item.to_dict()
MoveTrim(p, k) ==
    /\ ctx[p][k].pc = "trim"
    /\ MayRun(<< p, k >>)
    /\ history' = trim_history(history)
    /\ Return(p, k, ctx[p][k].item[1].status)
    /\ UNCHANGED << lookupVars, envVars, bingVars, batchVars, uses_redis, queue, processing,
                    clock, nextId >>

\* the test of the _processing flag at the head of retry_all_pending
IsProcessingNever(flag) == FALSE

IsProcessing(flag) == flag

\* retry_all_pending(lookup_service, max_concurrent) is called: rejected
\* while the flag is set, otherwise the flag is set and the pending items
\* are read
RetryAllCall(p) ==
    /\ CanCall(p)
    /\ IF IsProcessing(processing)
       THEN /\ op' = [ op EXCEPT ![p] = [ IdleOp EXCEPT !.ret = AlreadyInProgress ] ]
            /\ UNCHANGED << processing, running >>
       ELSE /\ processing' = TRUE
            /\ \E mc \in 1..MaxConcurrent :
                 op' = [ op EXCEPT ![p] = [ IdleOp EXCEPT !.name = "retry_all_pending",
                                                          !.pc = "get_pending",
                                                          !.arg = mc ] ]
            /\ AfterStorage(<< p, 0 >>)
    /\ UNCHANGED << lookupVars, envVars, bingVars, batchVars, uses_redis, queue, history,
                    clock, nextId, ctx, sem >>

\* pending = await self.get_pending(): with nothing pending the flag is
\* reset and the empty summary returned; otherwise the semaphore and one
\* task per pending item are created and gathered
RetryAllGetPending(p) ==
    /\ op[p].name = "retry_all_pending"
    /\ op[p].pc = "get_pending"
    /\ MayRun(<< p, 0 >>)
    /\ LET pending == get_pending(queue)
       IN  IF pending = {}
           THEN /\ processing' = FALSE
                /\ op' = [ op EXCEPT ![p] = IdleOp ]
                /\ UNCHANGED << ctx, sem >>
           ELSE /\ sem' = [ sem EXCEPT ![p] = op[p].arg ]
                /\ ctx' = [ ctx EXCEPT ![p] =
                              [ k \in ItemIds |-> IF k \in pending
                                                  THEN [ IdleCtx EXCEPT !.pc = "wait" ]
                                                  ELSE IdleCtx ] ]
                /\ op' = [ op EXCEPT ![p].pc = "gather" ]
                /\ UNCHANGED processing
    /\ running' = <<>>
    /\ UNCHANGED << lookupVars, envVars, bingVars, batchVars, uses_redis, queue, history, clock, nextId >>

\* "async with semaphore" of a task: the tasks take the permits in the
\* order of the pending list, which is the insertion order of the
\* in-memory dict and the unspecified order of the redis hash
TaskAcquire(p, k) ==
    /\ ctx[p][k].pc = "wait"
    /\ running = <<>>
    /\ sem[p] > 0
    /\ uses_redis \/ \A j \in ItemIds : j < k => ctx[p][j].pc # "wait"
    /\ sem' = [ sem EXCEPT ![p] = @ - 1 ]
    /\ ctx' = [ ctx EXCEPT ![p][k].pc = "get" ]
    /\ AfterStorage(<< p, k >>)
    /\ UNCHANGED << lookupVars, envVars, bingVars, batchVars, uses_redis, queue, history,
                    processing, clock, nextId, op >>

\* gather is over: the flag is reset and the summary returned
RetryAllFinish(p) ==
    /\ op[p].name = "retry_all_pending"
    /\ op[p].pc = "gather"
    /\ running = <<>>
    /\ \A k \in ItemIds : ctx[p][k].pc \in { "idle", "done" }
    /\ processing' = FALSE
    /\ op' = [ op EXCEPT ![p] = IdleOp ]
    /\ ctx' = [ ctx EXCEPT ![p] = [ k \in ItemIds |-> IdleCtx ] ]
    /\ UNCHANGED << lookupVars, envVars, bingVars, batchVars, uses_redis, queue, history,
                    clock, nextId, sem, running >>

\* remove_item(item_id) is called by a caller
RemoveItemCall(p, k) ==
    /\ CanCall(p)
    /\ k < nextId
    /\ queue' = remove_item(queue, k)
    /\ op' = [ op EXCEPT ![p] = IdleOp ]
    /\ UNCHANGED << lookupVars, envVars, bingVars, batchVars, uses_redis, history, processing,
                    clock, nextId, ctx, sem, running >>

\* clear_history() is called: the count is read
ClearHistoryCall(p) ==
    /\ CanCall(p)
    /\ op' = [ op EXCEPT ![p] = [ IdleOp EXCEPT !.name = "clear_history", !.pc = "delete",
                                                !.arg = Len(history) ] ]
    /\ AfterStorage(<< p, 0 >>)
    /\ UNCHANGED << lookupVars, envVars, bingVars, batchVars, uses_redis, queue, history,
                    processing, clock, nextId, ctx, sem >>

\* clear_history: the history is deleted and the count returned
ClearHistoryDelete(p) ==
    /\ op[p].name = "clear_history"
    /\ op[p].pc = "delete"
    /\ MayRun(<< p, 0 >>)
    /\ history' = <<>>
    /\ op' = [ op EXCEPT ![p] = IdleOp ]
    /\ running' = <<>>
    /\ UNCHANGED << lookupVars, envVars, bingVars, batchVars, uses_redis, queue, processing,
                    clock, nextId, ctx, sem >>

\* the retry queue of a service whose lookup service is the one of this
\* repository; either backend
RetryInit ==
    /\ requests = [ i \in Lookups |-> RequestAt(1) ]
    /\ useCache = [ i \in Lookups |-> FALSE ]
    /\ pc = [ i \in Lookups |-> "idle" ]
    /\ resp = [ i \in Lookups |-> NullResponse ]
    /\ calls = [ i \in Lookups |-> {} ]
    /\ cachedRead = [ i \in Lookups |-> <<>> ]
    /\ preFault = [ i \in Lookups |-> NullResponse ]
    /\ faulted = {}
    /\ cache = [ k \in CacheKeys |-> <<>> ]
    /\ is_connected = FALSE
    /\ bing_configured = FALSE
    /\ ai_configured = FALSE
    /\ results = [ i \in Lookups |-> NullResponse ]
    /\ semaphore = 0
    /\ batchPc = "none"
    /\ fast = NoFlag
    /\ \E redis \in BOOLEAN : RetryIdle(redis)
    /\ BingIdle(1, 1)

RetryNext ==
    \/ \E p \in Callers : EnqueueBatchCall(p, RaceItems, RaceBatches)
    \/ \E p \in Callers : EnqueueBatchStep(p)
    \/ \E p \in Callers, k \in ItemIds : RetryOneCall(p, k)
    \/ \E p \in Callers, k \in ItemIds : GetItem(p, k)
    \/ \E p \in Callers, k \in ItemIds : SaveRetrying(p, k)
    \/ \E p \in Callers, k \in ItemIds : Lookup(p, k)
    \/ \E p \in Callers, k \in ItemIds : SavePending(p, k)
    \/ \E p \in Callers, k \in ItemIds : MoveRemove(p, k)
    \/ \E p \in Callers, k \in ItemIds : MovePush(p, k)
    \/ \E p \in Callers, k \in ItemIds : MoveTrim(p, k)
    \/ \E p \in Callers : RetryAllCall(p)
    \/ \E p \in Callers : RetryAllGetPending(p)
    \/ \E p \in Callers, k \in ItemIds : TaskAcquire(p, k)
    \/ \E p \in Callers : RetryAllFinish(p)
    \/ \E p \in Callers, k \in ItemIds : RemoveItemCall(p, k)
    \/ \E p \in Callers : ClearHistoryCall(p)
    \/ \E p \in Callers : ClearHistoryDelete(p)

RetrySpec == RetryInit /\ [][RetryNext]_vars

\* one caller at a time, on a queue of up to MaxItems items
QueueNext ==
    \/ \E p \in Solo : EnqueueBatchCall(p, MaxItems, AllBatches)
    \/ \E p \in Solo : EnqueueBatchStep(p)
    \/ \E p \in Solo, k \in ItemIds : RetryOneCall(p, k)
    \/ \E p \in Solo, k \in ItemIds : GetItem(p, k)
    \/ \E p \in Solo, k \in ItemIds : SaveRetrying(p, k)
    \/ \E p \in Solo, k \in ItemIds : Lookup(p, k)
    \/ \E p \in Solo, k \in ItemIds : SavePending(p, k)
    \/ \E p \in Solo, k \in ItemIds : MoveRemove(p, k)
    \/ \E p \in Solo, k \in ItemIds : MovePush(p, k)
    \/ \E p \in Solo, k \in ItemIds : MoveTrim(p, k)
    \/ \E p \in Solo : RetryAllCall(p)
    \/ \E p \in Solo : RetryAllGetPending(p)
    \/ \E p \in Solo, k \in ItemIds : TaskAcquire(p, k)
    \/ \E p \in Solo : RetryAllFinish(p)
    \/ \E p \in Solo, k \in ItemIds : RemoveItemCall(p, k)
    \/ \E p \in Solo : ClearHistoryCall(p)
    \/ \E p \in Solo : ClearHistoryDelete(p)

QueueSpec == RetryInit /\ [][QueueNext]_vars

\* a Redis command awaited by retry_one or by retry_all_pending raises.
\* In retry_one the reads and writes before the try block, and those of the
\* except branch, are not guarded: the error leaves retry_one, to the caller
\* of a direct call or into the gather of retry_all_pending, whose task
\* leaves "async with".  An error inside the try block is caught once by
\* the except branch.  In retry_all_pending the error of get_pending leaves
\* the method with the flag set.
StorageFault(p) ==
    /\ uses_redis
    /\ \/ /\ op[p].name = "retry_all_pending"
          /\ op[p].pc = "get_pending"
          /\ op' = [ op EXCEPT ![p] = [ IdleOp EXCEPT !.ret = "raised" ] ]
          /\ UNCHANGED << ctx, sem, clock >>
       \/ \E k \in ItemIds :
            /\ ctx[p][k].pc \in { "get", "save_retrying", "save_pending", "remove", "push", "trim" }
            /\ IF /\ ctx[p][k].pc \in { "save_pending", "remove", "push", "trim" }
                  /\ ctx[p][k].lookup_ran
                  /\ ~ctx[p][k].caught
               THEN \E t \in clock..MaxClock :
                      LET item == after_lookup(ctx[p][k].item[1], "raise", "Error connecting to redis", t)
                      IN  /\ clock' = IF item.status = "pending" THEN t ELSE clock
                          /\ item.status # "pending" => t = clock
                          /\ ctx' = [ ctx EXCEPT ![p][k].pc = IF item.status = "pending"
                                                               THEN "save_pending" ELSE "remove",
                                                 ![p][k].item = << item >>,
                                                 ![p][k].caught = TRUE ]
                          /\ UNCHANGED << op, sem >>
               ELSE /\ IF op[p].name = "retry_one"
                       THEN /\ op' = [ op EXCEPT ![p] = [ IdleOp EXCEPT !.ret = "raised" ] ]
                            /\ ctx' = [ ctx EXCEPT ![p][k] = IdleCtx ]
                            /\ UNCHANGED sem
                       ELSE /\ ctx' = [ ctx EXCEPT ![p][k] = [ IdleCtx EXCEPT !.pc = "done" ] ]
                            /\ sem' = [ sem EXCEPT ![p] = @ + 1 ]
                            /\ UNCHANGED op
                    /\ UNCHANGED clock
    /\ running' = <<>>
    /\ UNCHANGED << lookupVars, envVars, bingVars, batchVars, uses_redis, queue, history,
                    processing, nextId >>

\* one caller at a time on a queue of one item whose Redis commands may raise
FaultNext ==
    \/ \E p \in Solo : EnqueueBatchCall(p, RaceItems, RaceBatches)
    \/ \E p \in Solo : EnqueueBatchStep(p)
    \/ \E p \in Solo, k \in ItemIds : RetryOneCall(p, k)
    \/ \E p \in Solo, k \in ItemIds : GetItem(p, k)
    \/ \E p \in Solo, k \in ItemIds : SaveRetrying(p, k)
    \/ \E p \in Solo, k \in ItemIds : Lookup(p, k)
    \/ \E p \in Solo, k \in ItemIds : SavePending(p, k)
    \/ \E p \in Solo, k \in ItemIds : MoveRemove(p, k)
    \/ \E p \in Solo, k \in ItemIds : MovePush(p, k)
    \/ \E p \in Solo, k \in ItemIds : MoveTrim(p, k)
    \/ \E p \in Solo : RetryAllCall(p)
    \/ \E p \in Solo : RetryAllGetPending(p)
    \/ \E p \in Solo, k \in ItemIds : TaskAcquire(p, k)
    \/ \E p \in Solo : RetryAllFinish(p)
    \/ \E p \in Solo, k \in ItemIds : RemoveItemCall(p, k)
    \/ \E p \in Solo : ClearHistoryCall(p)
    \/ \E p \in Solo : ClearHistoryDelete(p)
    \/ \E p \in Solo : StorageFault(p)

FaultSpec == RetryInit /\ [][FaultNext]_vars

\* ------------------------------------------------ termination of the runs
\* a service that is handed one lookup_batch call, or whose retry queue is
\* filled and processed by retry_all_pending (one caller at a time, either
\* backend, Redis commands may raise)
TermInit ==
    \/ Init
    \/ /\ requests = [ i \in Tasks |-> RequestAt(i) ]
       /\ useCache = [ i \in Tasks |-> FALSE ]
       /\ pc = [ i \in Tasks |-> "idle" ]
       /\ resp = [ i \in Tasks |-> NullResponse ]
       /\ calls = [ i \in Tasks |-> {} ]
       /\ cachedRead = [ i \in Tasks |-> <<>> ]
       /\ preFault = [ i \in Tasks |-> NullResponse ]
       /\ faulted = {}
       /\ cache = [ k \in CacheKeys |-> <<>> ]
       /\ is_connected = FALSE
       /\ bing_configured = FALSE
       /\ ai_configured = FALSE
       /\ results = [ i \in Tasks |-> NullResponse ]
       /\ semaphore = 0
       /\ batchPc = "none"
       /\ fast = NoFlag
       /\ \E redis \in BOOLEAN : RetryIdle(redis)
       /\ BingIdle(1, 1)

TermNext ==
    \/ Next
    \/ \E p \in Solo : batchPc = "none" /\ EnqueueBatchCall(p, MaxItems, AllBatches)
    \/ \E p \in Solo : EnqueueBatchStep(p)
    \/ \E p \in Solo : batchPc = "none" /\ RetryAllCall(p)
    \/ \E p \in Solo : RetryAllGetPending(p)
    \/ \E p \in Solo, k \in ItemIds : TaskAcquire(p, k)
    \/ \E p \in Solo, k \in ItemIds : GetItem(p, k)
    \/ \E p \in Solo, k \in ItemIds : SaveRetrying(p, k)
    \/ \E p \in Solo, k \in ItemIds : Lookup(p, k)
    \/ \E p \in Solo, k \in ItemIds : SavePending(p, k)
    \/ \E p \in Solo, k \in ItemIds : MoveRemove(p, k)
    \/ \E p \in Solo, k \in ItemIds : MovePush(p, k)
    \/ \E p \in Solo, k \in ItemIds : MoveTrim(p, k)
    \/ \E p \in Solo : RetryAllFinish(p)
    \/ \E p \in Solo : StorageFault(p)

\* the steps the event loop runs without a new call arriving: those of
\* lookup_batch and its tasks, and those of a call made on the queue
Scheduled ==
    \/ Next
    \/ \E p \in Solo :
         \/ EnqueueBatchStep(p)
         \/ RetryAllGetPending(p)
         \/ RetryAllFinish(p)
         \/ StorageFault(p)
         \/ \E k \in ItemIds :
              \/ TaskAcquire(p, k)
              \/ GetItem(p, k)
              \/ SaveRetrying(p, k)
              \/ Lookup(p, k)
              \/ SavePending(p, k)
              \/ MoveRemove(p, k)
              \/ MovePush(p, k)
              \/ MoveTrim(p, k)

\* asyncio runs every coroutine that is ready, and every individual lookup
\* and storage command is taken to return or raise
TermSpec == TermInit /\ [][TermNext]_vars /\ WF_vars(Scheduled)

\* ------------------------------------------------- cache keys of requests
\* requests whose names and addresses differ in letter case and in leading,
\* trailing and internal whitespace
KeyRequests ==
    { HotelSearchRequest(n, a) :
        n \in { <<"H", " ", "a">>, <<"h", " ", "a">>, <<" ", "H", " ", "a">>,
                <<"H", " ", " ", "a">> },
        a \in { <<>>, <<"b">>, <<"B", " ">>, <<"a">> } }

\* CacheService.set_hotel_lookup(hotel_name, address, result) on a connected
\* cache: the entry is stored under the key of name and address
SetHotelLookup(i) ==
    /\ \E rq \in KeyRequests :
         /\ requests' = [ requests EXCEPT ![i] = rq ]
         /\ cache' = [ cache EXCEPT ![KeyOf(rq)] = << cache_response(NewResponse(RequestAt(1))) >> ]
         /\ calls' = [ calls EXCEPT ![i] = {"cache_set"} ]
    /\ UNCHANGED << useCache, pc, resp, cachedRead, preFault, faulted, envVars, bingVars,
                    batchVars, retryVars >>

\* CacheService.get_hotel_lookup(hotel_name, address): what is stored under
\* the key of name and address, or None
GetHotelLookup(i) ==
    /\ \E rq \in KeyRequests :
         /\ requests' = [ requests EXCEPT ![i] = rq ]
         /\ cachedRead' = [ cachedRead EXCEPT ![i] = cache[KeyOf(rq)] ]
         /\ calls' = [ calls EXCEPT ![i] = {"cache_get"} ]
    /\ UNCHANGED << useCache, pc, resp, preFault, faulted, cache, envVars, bingVars,
                    batchVars, retryVars >>

\* a connected, empty cache service and its first caller
KeyInit ==
    /\ requests \in [ Lookups -> KeyRequests ]
    /\ useCache = [ i \in Lookups |-> TRUE ]
    /\ pc = [ i \in Lookups |-> "idle" ]
    /\ resp = [ i \in Lookups |-> NullResponse ]
    /\ calls = [ i \in Lookups |-> {} ]
    /\ cachedRead = [ i \in Lookups |-> <<>> ]
    /\ preFault = [ i \in Lookups |-> NullResponse ]
    /\ faulted = {}
    /\ cache = [ k \in { KeyOf(rq) : rq \in KeyRequests } |-> <<>> ]
    /\ is_connected = TRUE
    /\ bing_configured = FALSE
    /\ ai_configured = FALSE
    /\ results = [ i \in Lookups |-> NullResponse ]
    /\ semaphore = 0
    /\ batchPc = "none"
    /\ fast = NoFlag
    /\ RetryIdle(FALSE)
    /\ BingIdle(1, 1)

KeyNext ==
    \/ \E i \in Lookups : SetHotelLookup(i)
    \/ \E i \in Lookups : GetHotelLookup(i)

KeySpec == KeyInit /\ [][KeyNext]_vars

\* ------------------------------------------- Bing service: limiter, retries
\* the calls whose search_hotel is executing on a worker thread
Executing ==
    { c \in Callers : search[c].pc \in { "read", "write", "attempt", "run", "sleep" } }

\* search_hotel_async(name, ...) is called and reaches "async with"
SearchAsyncCall(c) ==
    /\ search[c].pc = "idle"
    /\ search' = [ search EXCEPT ![c].pc = "acquire" ]
    /\ UNCHANGED << lookupVars, envVars, batchVars, retryVars, limiter, metrics, progress >>

\* async with self._semaphore: a permit is taken and search_hotel is handed
\* to the executor
SemAcquireNoWait(c) ==
    /\ search[c].pc = "acquire"
    /\ limiter' = [ limiter EXCEPT !.permits = @ - 1 ]
    /\ search' = [ search EXCEPT ![c].pc = "queued" ]
    /\ UNCHANGED << lookupVars, envVars, batchVars, retryVars, metrics, progress >>

SemAcquire(c) ==
    /\ search[c].pc = "acquire"
    /\ limiter.permits > 0
    /\ limiter' = [ limiter EXCEPT !.permits = @ - 1 ]
    /\ search' = [ search EXCEPT ![c].pc = "queued" ]
    /\ UNCHANGED << lookupVars, envVars, batchVars, retryVars, metrics, progress >>

\* a free worker thread starts search_hotel: an unconfigured service
\* returns {} at once; otherwise self._total_requests += 1 begins
WorkerStart(c) ==
    /\ search[c].pc = "queued"
    /\ Cardinality(Executing) < limiter.pool_size
    /\ search' = [ search EXCEPT ![c] =
                     IF ~bing_configured
                     THEN [ @ EXCEPT !.pc = "returned", !.ret = "empty" ]
                     ELSE [ @ EXCEPT !.pc = "read", !.ctr = "total", !.then = "attempt",
                                     !.attempt = 1 ] ]
    /\ UNCHANGED << lookupVars, envVars, batchVars, retryVars, limiter, metrics, progress >>

\* counter += 1 on a worker thread: the load ...
CounterRead(c) ==
    /\ search[c].pc = "read"
    /\ search' = [ search EXCEPT ![c].pc = "write", ![c].reg = metrics[search[c].ctr] ]
    /\ UNCHANGED << lookupVars, envVars, batchVars, retryVars, limiter, metrics, progress >>

\* ... and the store
CounterWrite(c) ==
    /\ search[c].pc = "write"
    /\ metrics' = [ metrics EXCEPT ![search[c].ctr] = search[c].reg + 1 ]
    /\ search' = [ search EXCEPT ![c].pc = search[c].then, ![c].ctr = "none",
                                 ![c].then = "none", ![c].reg = 0 ]
    /\ UNCHANGED << lookupVars, envVars, batchVars, retryVars, limiter, progress >>

\* the rest of one pass of the loop once the attempt met outcome o: retry
\* after a sleep, or count the request as successful or failed and return
after_attempt(s, o) ==
    LET t == [ s EXCEPT !.last = << o >> ]
        retry == [ t EXCEPT !.pc = "sleep" ]
        fail == [ t EXCEPT !.pc = "read", !.ctr = "failed", !.then = "returned", !.ret = "empty" ]
    IN  IF o.kind = "exc"
        THEN IF s.attempt < max_retries /\ is_retryable_exception(o.status, o.msg)
             THEN [ t EXCEPT !.pc = "read", !.ctr = "retries", !.then = "sleep" ]
             ELSE fail
        ELSE IF o.status # "completed"
        THEN IF s.attempt < max_retries /\ is_retryable_error(o.status, o.msg)
             THEN retry
             ELSE fail
        ELSE IF o.valid
        THEN [ t EXCEPT !.pc = "read", !.ctr = "successful", !.then = "returned", !.ret = "result" ]
        ELSE IF s.attempt < max_retries THEN retry ELSE fail

\* the head of one pass: _ensure_agent, _get_client and the prompt, which
\* may raise; from the second pass on the retry is counted
Attempt(c) ==
    /\ search[c].pc = "attempt"
    /\ \/ \E o \in { x \in RunOutcomes : x.kind = "exc" } :
            search' = [ search EXCEPT ![c] = after_attempt(@, o) ]
       \/ search' = [ search EXCEPT ![c] =
                        IF @.attempt > 1
                        THEN [ @ EXCEPT !.pc = "read", !.ctr = "retries", !.then = "run" ]
                        ELSE [ @ EXCEPT !.pc = "run" ] ]
    /\ UNCHANGED << lookupVars, envVars, batchVars, retryVars, limiter, metrics, progress >>

\* create_thread_and_process_run and the reading of the messages
ProviderRun(c) ==
    /\ search[c].pc = "run"
    /\ \E o \in RunOutcomes : search' = [ search EXCEPT ![c] = after_attempt(@, o) ]
    /\ UNCHANGED << lookupVars, envVars, batchVars, retryVars, limiter, metrics, progress >>

\* time.sleep(delay); continue
Sleep(c) ==
    /\ search[c].pc = "sleep"
    /\ search' = [ search EXCEPT ![c].pc = "attempt",
                                 ![c].slept = Append(@, retry_delay(search[c].attempt)),
                                 ![c].attempt = @ + 1 ]
    /\ UNCHANGED << lookupVars, envVars, batchVars, retryVars, limiter, metrics, progress >>

\* search_hotel has returned: the coroutine resumes, leaves "async with"
\* and returns the result
SearchAsyncReturn(c) ==
    /\ search[c].pc = "returned"
    /\ limiter' = [ limiter EXCEPT !.permits = @ + 1 ]
    /\ search' = [ search EXCEPT ![c].pc = "done" ]
    /\ UNCHANGED << lookupVars, envVars, batchVars, retryVars, metrics, progress >>

\* a search_one that awaits the callback before it stores its result
SearchOneCallbackFirst(c) ==
    /\ search[c].pc = "done"
    /\ \E cbOk \in BOOLEAN :
         /\ progress' = [ progress EXCEPT
                            !.results[c] = IF cbOk THEN search[c].ret ELSE @,
                            !.completed = @ + 1,
                            !.log = Append(@, << progress.completed + 1, Cardinality(Callers),
                                                 c, search[c].ret >>) ]
         /\ search' = [ search EXCEPT ![c].pc = IF cbOk THEN "finished" ELSE "cb_raised" ]
    /\ UNCHANGED << lookupVars, envVars, batchVars, retryVars, limiter, metrics >>

\* search_one of search_hotels_batch after its search returned: the result
\* is stored, completed is counted and the progress callback is awaited
\* with (completed, total, name, result); a callback that raises ends the
\* task with that exception, which gather(return_exceptions=True) keeps.
\* The caller's number stands for the hotel's index and name.
SearchOne(c) ==
    /\ search[c].pc = "done"
    /\ \E cbOk \in BOOLEAN :
         /\ progress' = [ progress EXCEPT
                            !.results[c] = search[c].ret,
                            !.completed = @ + 1,
                            !.log = Append(@, << progress.completed + 1, Cardinality(Callers),
                                                 c, search[c].ret >>) ]
         /\ search' = [ search EXCEPT ![c].pc = IF cbOk THEN "finished" ELSE "cb_raised" ]
    /\ UNCHANGED << lookupVars, envVars, batchVars, retryVars, limiter, metrics >>

\* a service built with some max_concurrent and thread_pool_size, configured
\* or not, whose search_hotels_batch runs one search_one per caller, each
\* calling search_hotel_async once
BingInit ==
    /\ requests = [ i \in Lookups |-> RequestAt(1) ]
    /\ useCache = [ i \in Lookups |-> FALSE ]
    /\ pc = [ i \in Lookups |-> "idle" ]
    /\ resp = [ i \in Lookups |-> NullResponse ]
    /\ calls = [ i \in Lookups |-> {} ]
    /\ cachedRead = [ i \in Lookups |-> <<>> ]
    /\ preFault = [ i \in Lookups |-> NullResponse ]
    /\ faulted = {}
    /\ cache = [ k \in CacheKeys |-> <<>> ]
    /\ is_connected = FALSE
    /\ bing_configured \in BOOLEAN
    /\ ai_configured = FALSE
    /\ results = [ i \in Lookups |-> NullResponse ]
    /\ semaphore = 0
    /\ batchPc = "none"
    /\ fast = NoFlag
    /\ RetryIdle(FALSE)
    /\ \E m \in 1..BingMaxConcurrent, w \in 1..PoolSize : BingIdle(m, w)

BingNext ==
    \/ \E c \in Callers : SearchAsyncCall(c)
    \/ \E c \in Callers : SemAcquire(c)
    \/ \E c \in Callers : WorkerStart(c)
    \/ \E c \in Callers : CounterRead(c)
    \/ \E c \in Callers : CounterWrite(c)
    \/ \E c \in Callers : Attempt(c)
    \/ \E c \in Callers : ProviderRun(c)
    \/ \E c \in Callers : Sleep(c)
    \/ \E c \in Callers : SearchAsyncReturn(c)
    \/ \E c \in Callers : SearchOne(c)

BingSpec == BingInit /\ [][BingNext]_vars

\* ================================================================ claims
SearchStages == { "bing", "websearch", "scrape", "verify", "extract", "booking", "planning" }
TerminalStatuses == { "success", "partial", "not_found" }
CallIds == DOMAIN pc

\* the status table of the specification: a function of the populated fields
StatusTable(r) ==
    LET n == Cardinality({ f \in {"official_website", "uk_contact_phone", "rooms_min"} : Truthy(r[f]) })
    IN  IF n = 3 THEN "success" ELSE IF n = 0 THEN "not_found" ELSE "partial"

\* C1: when lookup_batch returns, the result list has one entry per request
\* and entry i carries the name of request i.
C1_OrderPreserved ==
    batchPc = "done" =>
        /\ DOMAIN results = DOMAIN requests
        /\ \A i \in Tasks : results[i].search_name = requests[i].name

\* C2: the number of lookup_hotel invocations that have started and not yet
\* returned never exceeds max_concurrent.
C2_InFlightBound ==
    Cardinality({ i \in CallIds : pc[i] \in LookupPcs }) <= MaxConcurrent

\* as many lookups in flight as permits, while a further task waits
C2_Witness ==
    /\ InBatch
    /\ Cardinality({ i \in CallIds : pc[i] \in LookupPcs }) = MaxConcurrent
    /\ \E i \in CallIds : pc[i] = "idle"

C4_NeverRaises ==
    \A i \in CallIds : pc[i] \notin {"raised", "failed"}

\* C5: on every return that is neither a fault nor a cache hit, the status
\* is the one the status table gives for the populated fields.
C5_StatusFromFields ==
    \A i \in CallIds :
        (pc[i] = "returned" /\ i \notin faulted /\ cachedRead[i] = <<>>)
            => resp[i].status = StatusTable(resp[i])

\* C6: after a fault in the try block the result has status Error, every
\* field keeps the value it had before the fault, and the fault's message
\* is appended after the earlier error annotations.
C6_FaultKeepsFields ==
    \A i \in faulted :
        /\ resp[i].status = "error"
        /\ resp[i].search_name = preFault[i].search_name
        /\ resp[i].official_website = preFault[i].official_website
        /\ resp[i].uk_contact_phone = preFault[i].uk_contact_phone
        /\ resp[i].rooms_min = preFault[i].rooms_min
        /\ resp[i].confidence_score = preFault[i].confidence_score
        /\ resp[i].errors = preFault[i].errors \o << FaultMsg >>

\* a fault after the website was found and an annotation was recorded
C6_Witness ==
    \E i \in faulted :
        /\ Truthy(preFault[i].official_website)
        /\ preFault[i].errors # <<>>

\* C7: no entry of the cache has status Error.
C7_NoErrorCached ==
    \A k \in DOMAIN cache :
        cache[k] # <<>> => cache[k][1].status \in TerminalStatuses

\* a call with caching enabled ended in the except branch
C7_Witness ==
    \E i \in faulted :
        /\ pc[i] = "returned"
        /\ ShouldUseCache(useCache[i], is_connected)
        /\ resp[i].status = "error"

\* C8: with caching enabled, every call that missed the cache and returned
\* Success, Partial or NotFound has performed the cache write.
C8_TerminalResultCached ==
    \A i \in CallIds :
        ( /\ pc[i] = "returned"
          /\ useCache[i] /\ is_connected
          /\ cachedRead[i] = <<>>
          /\ resp[i].status \in TerminalStatuses )
            => "cache_set" \in calls[i]

C10_BypassNeverReads ==
    \A i \in CallIds :
        ~useCache[i] =>
            /\ "cache_get" \notin calls[i]
            /\ cachedRead[i] = <<>>
            /\ pc[i] # "raised"
            /\ pc[i] = "returned" => calls[i] \cap {"bing", "websearch"} # {}

\* a call with use_cache = false returned while the connected cache held a
\* valid entry for its fingerprint
C10_Witness ==
    \E i \in CallIds :
        /\ ~useCache[i]
        /\ is_connected
        /\ pc[i] = "returned"
        /\ cache[KeyOf(requests[i])] # <<>>
        /\ ValidResponseFields(cache[KeyOf(requests[i])][1])

\* C11: a batch called with the fast flag set runs, and each of its lookups
\* whose primary search came back empty returns NotFound without a web
\* search, a booking-site search or a planning-portal search.
C11_FastModeShortCircuit ==
    fast = "true" =>
        /\ batchPc # "raised"
        /\ \A i \in CallIds :
              (pc[i] = "returned" /\ cachedRead[i] = <<>> /\ ~Truthy(resp[i].official_website)
                 /\ i \notin faulted)
                => /\ resp[i].status = "not_found"
                   /\ calls[i] \cap { "websearch", "booking", "planning" } = {}

\* a retry_all_pending run that passed the flag test and has not returned
ActiveRun(p) ==
    op[p].name = "retry_all_pending" /\ op[p].pc \in { "get_pending", "gather" }

\* a retry_one execution that has started and not returned
InFlight(p, k) == ctx[p][k].pc \notin { "idle", "wait", "done" }

\* C12: at most one retry_all_pending run is active; while one is active
\* the flag is set, so that a further invocation takes the rejecting branch;
\* and a rejected invocation holds the "already in progress" result and has
\* started no retry.
C12_OneRunAtATime ==
    /\ Cardinality({ p \in Callers : ActiveRun(p) }) <= 1
    /\ (\E p \in Callers : ActiveRun(p)) => processing
    /\ \A p \in Callers :
         op[p].ret = AlreadyInProgress =>
            /\ ~ActiveRun(p)
            /\ \A k \in ItemIds : ctx[p][k] = IdleCtx

\* a caller was rejected while the run of another caller has a retry in flight
C12_Witness ==
    \E p, q \in Callers :
        /\ op[p].ret = AlreadyInProgress
        /\ ActiveRun(q)
        /\ \E k \in ItemIds : InFlight(q, k)

\* the items of the live queue and of the history
QueueItems == { queue[k][1] : k \in { j \in ItemIds : queue[j] # <<>> } }
HistoryItems == { history[i].item : i \in 1..Len(history) }

\* C13: in every state the attempt_count of every item of the live queue
\* and of the history is at most its max_attempts.
C13_AttemptsBounded ==
    \A item \in QueueItems \cup HistoryItems :
        item.attempt_count <= item.max_attempts

\* the ids of the entries of the history
HistoryIds == { history[i].item.id : i \in 1..Len(history) }

\* C14: no step puts an item back into the live queue whose id has an entry
\* in the history and is absent from the live queue.
C14_NoReturnFromHistory ==
    [][ \A k \in ItemIds :
          (k \in HistoryIds /\ queue[k] = <<>>) => queue'[k] = <<>> ]_vars

\* C15: every Exhausted entry of the history was completed by the retry
\* that brought attempt_count to max_attempts: it carries that count and a
\* completed_at timestamp, its id is not in the live queue, and no other
\* entry of the history has its id.
C15_ExhaustedOnce ==
    \A i \in 1..Len(history) :
        history[i].item.status = "exhausted" =>
            /\ history[i].item.attempt_count = history[i].item.max_attempts
            /\ history[i].completed_at # NoTime
            /\ queue[history[i].item.id] = <<>>
            /\ \A j \in 1..Len(history) : history[j].item.id = history[i].item.id => j = i

\* C16: every retry_one execution that is past its lookup call has run
\* lookup_hotel (with use_cache = false), and no retry ends in a failure
\* branch without a lookup having been performed.
C16_RetryRunsLookup ==
    \A p \in Callers, k \in ItemIds :
        ctx[p][k].pc \in { "save_pending", "remove", "push", "trim" }
            => ctx[p][k].lookup_ran

\* C17: at the step at which retry_one returns from a failed retry whose
\* attempt_count is below max_attempts, the live queue holds the item with
\* status Pending, that attempt_count, and a next_retry_at that is a clock
\* reading plus backoff_base * 2^attempt_count.
C17_FailedRetryIsPending ==
    [][ \A p \in Callers, k \in ItemIds :
          ( /\ InFlight(p, k)
            /\ ctx'[p][k].pc \in { "idle", "done" }
            /\ ctx[p][k].item # <<>>
            /\ ctx[p][k].item[1].status # "succeeded"
            /\ ctx[p][k].item[1].attempt_count < ctx[p][k].item[1].max_attempts )
          => /\ queue'[k] # <<>>
             /\ queue'[k][1].status = "pending"
             /\ queue'[k][1].attempt_count = ctx[p][k].item[1].attempt_count
             /\ \E t \in 0..clock' :
                  queue'[k][1].next_retry_at
                     = t + backoff_base * (2 ^ queue'[k][1].attempt_count) ]_vars

\* a failed retry has returned: the item is Pending in the live queue with
\* one attempt or more counted, and no retry of it is in flight
C17_Witness ==
    \E k \in ItemIds :
        /\ queue[k] # <<>>
        /\ queue[k][1].status = "pending"
        /\ queue[k][1].attempt_count >= 1
        /\ queue[k][1].attempt_count < queue[k][1].max_attempts
        /\ queue[k][1].last_errors # <<>>
        /\ \A p \in Callers : ~InFlight(p, k)

\* C18: the delay of an item with attempt_count = n is backoff_base * 2^n
\* (30, 60, 120, 240 seconds for n = 0..3), an item that enters the queue
\* Pending with attempt_count 0 carries a clock reading plus backoff_base,
\* and whenever the stored next_retry_at of an item changes it becomes
\* strictly later.
C18_BackoffSchedule ==
    [][ /\ \A n \in 0 .. 3 :
             calculate_next_retry(n, clock) - clock = << 30, 60, 120, 240 >>[n + 1]
        /\ \A k \in ItemIds :
             /\ ( /\ queue[k] = <<>>
                  /\ queue'[k] # <<>>
                  /\ queue'[k][1].attempt_count = 0 )
                => /\ queue'[k][1].status = "pending"
                   /\ \E t \in clock .. clock' :
                        queue'[k][1].next_retry_at = t + backoff_base
             /\ ( /\ queue[k] # <<>>
                  /\ queue'[k] # <<>>
                  /\ queue'[k][1].next_retry_at # queue[k][1].next_retry_at )
                => queue'[k][1].next_retry_at > queue[k][1].next_retry_at ]_vars

\* the step of caller p is one enqueue of a running enqueue_batch_failures
EnqueueStepOf(p) ==
    /\ op[p].name = "enqueue_batch_failures"
    /\ op[p].pc = "loop"
    /\ op'[p] # op[p]

\* C19: every enqueue of enqueue_batch_failures(results, requests) adds one
\* new Pending item with attempt_count 0, built from requests[i] for the
\* next index i whose result is NotFound or Error, and changes no other
\* item; the indexes it passes over and those left when it returns are
\* Success or Partial; the number of items enqueued when it returns is the
\* number of NotFound/Error results; nothing else adds a fresh item.
C19_EnqueuesExactlyFailures ==
    [][ /\ \A p \in Callers :
             EnqueueStepOf(p) =>
               LET o == op[p]
                   id == nextId
               IN  \E i \in o.idx .. Len(o.results) :
                     /\ o.results[i] \in { "not_found", "error" }
                     /\ \A j \in o.idx .. i - 1 : o.results[j] \in { "success", "partial" }
                     /\ queue[id] = <<>>
                     /\ queue'[id] # <<>>
                     /\ queue'[id][1].status = "pending"
                     /\ queue'[id][1].attempt_count = 0
                     /\ queue'[id][1].hotel_name = o.requests[i].name
                     /\ queue'[id][1].address = o.requests[i].address
                     /\ queue'[id][1].original_status = o.results[i]
                     /\ \A k \in ItemIds \ { id } : queue'[k] = queue[k]
                     /\ IF op'[p].pc = "loop"
                        THEN /\ op'[p].idx = i + 1
                             /\ op'[p].enqueued = Append(o.enqueued, id)
                        ELSE /\ \A j \in i + 1 .. Len(o.results) :
                                   o.results[j] \in { "success", "partial" }
                             /\ Len(o.enqueued) + 1
                                  = Cardinality({ j \in 1 .. Len(o.results) :
                                                    o.results[j] \in { "not_found", "error" } })
        /\ \A k \in ItemIds :
             ( /\ queue[k] = <<>>
               /\ queue'[k] # <<>>
               /\ queue'[k][1].attempt_count = 0 )
             => \E p \in Callers : EnqueueStepOf(p) ]_vars

\* a batch whose first result is Success or Partial and whose second is
\* Error has returned: the one item of the queue is built from the second
\* request
C19_Witness ==
    /\ \A p \in Callers : op[p].pc = "idle"
    /\ nextId = 2
    /\ queue[1] # <<>>
    /\ queue[1][1].status = "pending"
    /\ queue[1][1].attempt_count = 0
    /\ queue[1][1].original_status = "error"
    /\ queue[1][1].hotel_name = RequestAt(2).name
    /\ RequestAt(2).name # RequestAt(1).name

\* the executions of _move_to_history that have pushed and not yet trimmed
Untrimmed == { pk \in Callers \X ItemIds : ctx[pk[1]][pk[2]].pc = "trim" }

\* a step puts one entry in front of the history and keeps the others
Pushes ==
    /\ Len(history') = Len(history) + 1
    /\ Tail(history') = history

\* a step drops the entries beyond the first HISTORY_MAX and no other
DropsOldest ==
    /\ Len(history) > HISTORY_MAX
    /\ history' = SubSeq(history, 1, HISTORY_MAX)

\* the push of _move_to_history by retry (p, k) puts the item it completed,
\* Succeeded or Exhausted, at index 0
PushedFirst ==
    \A p \in Callers, k \in ItemIds :
        (ctx[p][k].pc = "push" /\ ctx'[p][k].pc = "trim")
        => /\ Pushes
           /\ history'[1].item = ctx[p][k].item[1]
           /\ history'[1].item.id = k
           /\ history'[1].item.status \in { "succeeded", "exhausted" }

MemoryObservable ==
    /\ \A item \in QueueItems :
         /\ item.status = "pending"
         /\ item.attempt_count < item.max_attempts
    /\ \A item \in HistoryItems :
         /\ item.status \in { "succeeded", "exhausted" }
         /\ item.status = "exhausted" => item.attempt_count = item.max_attempts
         /\ queue[item.id] = <<>>
    /\ \A i, j \in 1..Len(history) :
         history[i].item.id = history[j].item.id => i = j

\* C21: at every instant at which a caller can read the queue, the contents,
\* statuses, attempt counts and history that either backend shows are
\* contents the in-memory backend shows.
C21_BackendParity ==
    running = <<>> => MemoryObservable

\* C22: at every instant the number of search_hotel calls executing on
\* worker threads through search_hotel_async is at most the max_concurrent
\* the service was built with, whoever the callers are.
C22_SearchesWithinLimit ==
    Cardinality(Executing) <= limiter.max_concurrent

\* as many searches execute as the limiter allows while a further call
\* waits for a permit
C22_Witness ==
    /\ Cardinality(Executing) = limiter.max_concurrent
    /\ limiter.permits = 0
    /\ \E c \in Callers : search[c].pc = "acquire"

\* the failures, among those an attempt may meet, that are not worth a
\* retry: a cancelled run and a ValueError, with no telling message
FatalOutcomes ==
    { [ kind |-> "run", status |-> "cancelled", msg |-> "", valid |-> FALSE ],
      [ kind |-> "exc", status |-> "ValueError", msg |-> "", valid |-> FALSE ] }

\* the call of c is over or about to count its failure and return
Ending(c) ==
    \/ search[c].pc \in { "returned", "done", "finished", "cb_raised" }
    \/ search[c].pc \in { "read", "write" } /\ search[c].ctr \in { "failed", "successful" }

\* C23: one search_hotel call makes at most max_retries attempts; the waits
\* before attempts 2, 3, ... are retry_delay_base * 2^0, 2^1, ... (2 and 4
\* seconds); a call sleeps only after a failure that is not fatal, on an
\* attempt below max_retries; after a fatal failure the call ends at once
\* with the empty result; a call that ends after any other failure has made
\* max_retries attempts; and a call that is over has returned a result or
\* the empty result.
C23_RetriesWithBackoff ==
    \A c \in Callers :
        LET s == search[c]
            failed == s.last # <<>> /\ ~(s.last[1].status = "completed" /\ s.last[1].valid)
        IN  /\ s.attempt <= max_retries
            /\ s.attempt >= 1 => Len(s.slept) = s.attempt - 1
            /\ \A k \in 1..Len(s.slept) : s.slept[k] = << 2, 4 >>[k]
            /\ s.pc = "sleep" => failed /\ s.last[1] \notin FatalOutcomes /\ s.attempt < max_retries
            /\ (failed /\ s.last[1] \in FatalOutcomes) => Ending(c) /\ s.ret = "empty"
            /\ (failed /\ s.last[1] \notin FatalOutcomes /\ Ending(c))
                 => s.attempt = max_retries /\ s.ret = "empty"
            /\ s.pc = "done" =>
                 /\ s.ret \in { "empty", "result" }
                 /\ s.ret = "result" <=> (s.last # <<>> /\ ~failed)

\* a call that failed on every attempt, none fatally, has returned the
\* empty result after waits of 2 and 4 seconds
C23_Witness ==
    \E c \in Callers :
        /\ search[c].pc = "done"
        /\ search[c].attempt = max_retries
        /\ search[c].slept = << 2, 4 >>
        /\ search[c].ret = "empty"

\* C25: once every search_hotel call made on a configured service has
\* completed, total_requests is the number of calls made and successful +
\* failed equals total_requests.
C25_CountersExact ==
    (bing_configured /\ \A c \in Callers : search[c].pc \in { "idle", "done" })
    => /\ metrics.total = Cardinality({ c \in Callers : search[c].pc = "done" })
       /\ metrics.successful + metrics.failed = metrics.total

\* C24: no invocation of retry_one or of retry_all_pending ends by raising,
\* whatever fault the lookup or the queue storage produces.
C24_NoExceptionCrosses ==
    \A p \in Callers : op[p].ret # "raised"

\* C26: a cache that is unreachable or faults on get or set is a miss and a
\* no-op.  A faulting or unreachable read leaves the call where a call with
\* use_cache = false is after its cache check (at the primary search, with
\* the fresh response, no stage run), the steps in between do not consult
\* the cache, and the closing write, faulting or not, raises nothing, leaves
\* the response as computed and either stores it or leaves the cache as it
\* was.
C26_CacheFaultIsMiss ==
    [][ \A i \in Lookups :
          /\ (pc[i] = "cache_check" /\ pc'[i] # "cache_check") =>
               /\ ~useCache[i] =>
                    /\ pc'[i] = "primary"
                    /\ resp'[i] = NewResponse(requests[i])
                    /\ calls'[i] = {}
               /\ (useCache[i] /\ ~CacheHit(cachedRead'[i])) =>
                    /\ pc'[i] = "primary"
                    /\ resp'[i] = NewResponse(requests[i])
                    /\ calls'[i] = IF is_connected THEN {"cache_get"} ELSE {}
          /\ (pc[i] \in {"primary_finish", "final_cache"} /\ pc'[i] # pc[i]) =>
               /\ pc'[i] = "returned"
               /\ resp'[i] = IF pc[i] = "final_cache"
                             THEN resp[i]
                             ELSE [ resp[i] EXCEPT !.status = PrimaryStatus(resp[i]) ]
               /\ calls'[i] \ {"cache_set"} = calls[i]
               /\ \A k \in DOMAIN cache :
                    cache'[k] # cache[k] =>
                       /\ k = KeyOf(requests[i])
                       /\ cache'[k] = << cache_response(resp'[i]) >>
      ]_vars

\* a call whose cache read faulted on a stored entry ran the stages and
\* returned, and its cache write faulted too
C26_Witness ==
    \E i \in Lookups :
        /\ pc[i] = "returned"
        /\ useCache[i] /\ is_connected
        /\ cachedRead[i] = <<>>
        /\ {"cache_get", "cache_set"} \subseteq calls[i]
        /\ calls[i] \cap SearchStages # {}
        /\ cache[KeyOf(requests[i])] # <<>>
        /\ cache[KeyOf(requests[i])] # << cache_response(resp[i]) >>

CacheOps == { "cache_get", "cache_set" }

\* C27: every finished call of lookup_hotel has performed exactly one cache
\* operation: never none, never a read and a write.
C27_OneCacheOperation ==
    \A i \in Lookups :
        pc[i] \in {"returned", "raised"} => Cardinality(calls[i] \cap CacheOps) = 1

\* C27, amended: every call performs at most one cache read and at most one
\* cache write.  The read is the first operation of the call; a hit performs
\* the read and no write; a call with caching disabled performs neither; a
\* write is performed only by the step that ends a call whose own read
\* missed.
C27_AtMostOneReadOneWrite ==
    [][ \A i \in Lookups :
          /\ "cache_get" \in calls'[i] \ calls[i] =>
                pc[i] = "cache_check" /\ calls[i] = {}
          /\ ("cache_set" \in calls'[i] \ calls[i] \/ cache' # cache) =>
                /\ "cache_set" \notin calls[i]
                /\ "cache_get" \in calls[i]
                /\ cachedRead[i] = <<>>
                /\ pc[i] \in LookupPcs /\ pc'[i] = "returned"
          /\ cachedRead'[i] # <<>> => calls'[i] = {"cache_get"}
          /\ ~(useCache'[i] /\ is_connected') => calls'[i] \cap CacheOps = {}
      ]_vars

\* a call that missed the cache has returned after its read and the write
\* of its result
C27_Witness ==
    \E i \in Lookups :
        /\ pc[i] = "returned"
        /\ cachedRead[i] = <<>>
        /\ CacheOps \subseteq calls[i]
        /\ cache[KeyOf(requests[i])] = << cache_response(resp[i]) >>

\* one of website, phone and rooms is populated
Populated(response) ==
    \/ Truthy(response.official_website)
    \/ Truthy(response.uk_contact_phone)
    \/ Truthy(response.rooms_min)

\* C28: a call that ended without a fault and without a cache hit, and
\* whose primary search populated none of website, phone and rooms, has
\* invoked the fallback web search; and the fallback web search is reached
\* only while none of the three is populated.
C28_FallbackIffPrimaryEmpty ==
    \A i \in Lookups :
        /\ ( /\ pc[i] = "returned"
             /\ i \notin faulted
             /\ cachedRead[i] = <<>>
             /\ ~Populated(resp[i]) )
               => "websearch" \in calls[i]
        /\ pc[i] = "websearch" => ~Populated(resp[i])

\* the response carries the annotation msg
Annotated(response, msg) ==
    \E k \in DOMAIN response.errors : response.errors[k] = msg

\* C29: once verification has reported a mismatch, the website field is
\* cleared and the content extractor is not run on the rejected content; a
\* call that ends at the mismatch (confidence above the threshold) has tried
\* the booking sites and is NotFound unless they supplied the data.
C29_ExtractOnlyVerified ==
    \A i \in Lookups :
        Annotated(resp[i], "Website may not match hotel") =>
            /\ ~Truthy(resp[i].official_website)
            /\ "extract" \notin calls[i]
            /\ (pc[i] = "returned" /\ i \notin faulted) =>
                  /\ "booking" \in calls[i]
                  /\ \/ resp[i].status = "not_found"
                     \/ Annotated(resp[i], "Data sourced from booking site as fallback")

\* C30: a call that ended without a fault and without a cache hit and whose
\* result has no room count has attempted the planning portal search, on the
\* primary path and on the fallback path, with or without a phone or a
\* website.
C30_PlanningWhenRoomsMissing ==
    \A i \in Lookups :
        ( /\ pc[i] = "returned"
          /\ i \notin faulted
          /\ cachedRead[i] = <<>>
          /\ ~Truthy(resp[i].rooms_min) )
            => "planning" \in calls[i]

\* C31: the deep scrape after a primary-search result leaves the website and
\* every populated phone or rooms value as they were, never lowers the
\* confidence, only appends to the errors, and when it ends in its except
\* clause it has changed no field and only appended the error.
C31_DeepScrapeFillsMissing ==
    [][ \A i \in Lookups :
          (pc[i] = "deep" /\ pc'[i] # "deep") =>
             /\ resp'[i].official_website = resp[i].official_website
             /\ Truthy(resp[i].uk_contact_phone) =>
                   resp'[i].uk_contact_phone = resp[i].uk_contact_phone
             /\ Truthy(resp[i].rooms_min) => resp'[i].rooms_min = resp[i].rooms_min
             /\ resp'[i].confidence_score >= resp[i].confidence_score
             /\ Len(resp'[i].errors) >= Len(resp[i].errors)
             /\ SubSeq(resp'[i].errors, 1, Len(resp[i].errors)) = resp[i].errors
             /\ Annotated(resp'[i], "Deep scrape error") =>
                   resp'[i] = AddError(resp[i], "Deep scrape error")
      ]_vars

\* C32: a call whose scraped site was detected as a parked domain has the
\* website cleared and the diagnostic in its errors, has tried the booking
\* sites, and has returned without verification or extraction.
C32_ParkedDomainReturns ==
    \A i \in Lookups :
        Annotated(resp[i], "Website appears to be a parked domain") =>
            /\ ~Truthy(resp[i].official_website)
            /\ "booking" \in calls[i]
            /\ calls[i] \cap {"verify", "extract", "planning"} = {}
            /\ pc[i] = "returned"

\* a call returned from a parked domain with a room count from a booking site
C32_Witness ==
    \E i \in Lookups :
        /\ pc[i] = "returned"
        /\ Annotated(resp[i], "Website appears to be a parked domain")
        /\ Annotated(resp[i], "Room count sourced from booking site")
        /\ Truthy(resp[i].rooms_min)
        /\ "scrape" \in calls[i]

\* the search_one tasks that are over, with or without a callback fault
Completed == { c \in Callers : search[c].pc \in { "finished", "cb_raised" } }

\* the callback was invoked once per completed task, with the counts 1, 2,
\* ... in this order, the batch's total and the task's name; a task's stored
\* result is what its search returned, whether or not its callback raised;
\* and a callback fault of one task stops no other task
ProgressCounts ==
    /\ Len(progress.log) = Cardinality(Completed)
    /\ progress.completed = Len(progress.log)
    /\ \A k \in 1..Len(progress.log) :
          /\ progress.log[k][1] = k
          /\ progress.log[k][2] = Cardinality(Callers)
          /\ progress.log[k][3] \in Completed
    /\ \A j, k \in 1..Len(progress.log) :
          progress.log[j][3] = progress.log[k][3] => j = k
    /\ \A c \in Callers :
          progress.results[c] = IF c \in Completed THEN search[c].ret ELSE NoneVal

\* C33: ... and the fourth argument of every invocation is the task's
\* status.
C33_ProgressWithStatus ==
    /\ ProgressCounts
    /\ \A k \in 1..Len(progress.log) :
          progress.log[k][4] \in TerminalStatuses \cup { "error" }

\* C33, amended: ... and the fourth argument of every invocation is the
\* task's result as stored.
C33_ProgressWithResult ==
    /\ ProgressCounts
    /\ \A k \in 1..Len(progress.log) :
          progress.log[k][4] = progress.results[progress.log[k][3]]

\* the callback raised for the task that completed first, and the other
\* task completed after it with its own callback and result
C33_Witness ==
    /\ Len(progress.log) = Cardinality(Callers)
    /\ search[progress.log[1][3]].pc = "cb_raised"
    /\ search[progress.log[2][3]].pc = "finished"
    /\ progress.results[progress.log[1][3]] = "result"

\* runs of spaces reduced to one space
RECURSIVE Collapse(_)
Collapse(s) ==
    IF Len(s) < 2 THEN s
    ELSE IF s[1] = " " /\ s[2] = " " THEN Collapse(Tail(s))
    ELSE << s[1] >> \o Collapse(Tail(s))

\* two texts that differ only in letter case and in whitespace
SameText(x, y) == Collapse(Strip(Lower(x))) = Collapse(Strip(Lower(y)))

\* C34: the request of a cache read or write has the cache key of every
\* request whose name and address differ from its own only in letter case
\* or in leading, trailing or internal whitespace, and a key different from
\* that of every request with the same name and a different address.
C34_FingerprintStable ==
    \A i \in Lookups : \A v \in KeyRequests :
        calls[i] # {} =>
        /\ (SameText(v.name, requests[i].name) /\ SameText(v.address, requests[i].address))
              => KeyOf(v) = KeyOf(requests[i])
        /\ (v.name = requests[i].name /\ ~SameText(v.address, requests[i].address))
              => KeyOf(v) # KeyOf(requests[i])

\* some step of lookup_hotel of task j
LookupStep(j) ==
    \/ CacheCheck(j) \/ PrimarySearch(j) \/ DeepScrape(j) \/ PrimaryFinish(j)
    \/ WebSearch(j) \/ Scrape(j) \/ Verify(j) \/ Extract(j) \/ FallbackFinish(j)

\* C35: while a lookup of the batch is at one of its external calls, every
\* other lookup in flight can take its next step.
C35_ExternalCallsSuspend ==
    \A i, j \in Tasks :
        (i # j /\ pc[i] \in LookupPcs /\ pc[j] \in LookupPcs) => ENABLED LookupStep(j)

\* C36: whenever no retry_all_pending invocation is under way, the
\* processing flag is false, so the next invocation is accepted.
C36_FlagReleased ==
    (\A p \in Callers : op[p].name # "retry_all_pending") => ~processing

\* C37: an item that was created and is no longer in the live queue nor in
\* the history (it was removed) while a retry of it is in flight is not put
\* back into the live queue by any step.
C37_RemovedStaysRemoved ==
    [][ \A k \in ItemIds :
          ( /\ k < nextId
            /\ queue[k] = <<>>
            /\ k \notin HistoryIds
            /\ \E p \in Callers : InFlight(p, k) )
             => queue'[k] = <<>> ]_vars

\* C38: in every state in which a caller can read the queue, every item of
\* the live queue is Pending or Retrying, every entry of the history is
\* Succeeded or Exhausted, no id is in the live queue and in the history,
\* and no id has two entries in the history.
C38_QueueHistoryDisjoint ==
    running = <<>> =>
        /\ \A item \in QueueItems : item.status \in { "pending", "retrying" }
        /\ \A item \in HistoryItems : item.status \in { "succeeded", "exhausted" }
        /\ \A k \in HistoryIds : queue[k] = <<>>
        /\ \A i, j \in 1..Len(history) :
              history[i].item.id = history[j].item.id => i = j

\* ---- C39: the cache round trip ----

\* the number of cache markers in an errors list
RECURSIVE Markers(_)
Markers(errors) ==
    IF errors = <<>> THEN 0
    ELSE (IF Head(errors) = CacheMarker THEN 1 ELSE 0) + Markers(Tail(errors))

\* C39: a result written to the cache by lookup_hotel and read back by a
\* later cache hit comes back with the status, website, phone, rooms_min and
\* confidence it was written with, and with the written errors list behind
\* exactly one cache marker, however many times the entry was hit before
C39_CacheRoundTrip ==
    \A i \in Lookups :
        (CacheHit(cachedRead[i]) /\ pc[i] # "cache_check") =>
            /\ pc[i] = "returned"
            /\ resp[i].status = cachedRead[i][1].status
            /\ resp[i].official_website = cachedRead[i][1].official_website
            /\ resp[i].uk_contact_phone = cachedRead[i][1].uk_contact_phone
            /\ resp[i].rooms_min = cachedRead[i][1].rooms_min
            /\ resp[i].confidence_score = cachedRead[i][1].confidence_score
            /\ resp[i].errors = << CacheMarker >> \o cachedRead[i][1].errors
            /\ Markers(resp[i].errors) = 1

\* ---- C40: termination and permits of lookup_batch and retry_all_pending ----

\* a task of lookup_batch, or of a retry_all_pending run, waits for a permit
Waiting(i) == batchPc = "running" /\ pc[i] = "idle"
RetryWaiting(p, k) == op[p].name = "retry_all_pending" /\ ctx[p][k].pc = "wait"

\* C40: provided every lookup ends, a lookup_batch call and a
\* retry_all_pending call end, every task of theirs gets its permit, and
\* when the call ends every permit is free again: max_concurrent of them,
\* whether the tasks returned or raised
C40_RunsTerminate ==
    /\ (batchPc = "called") ~> (batchPc \in { "done", "raised" })
    /\ \A i \in Tasks : Waiting(i) ~> ~Waiting(i)
    /\ [](batchPc = "done" => semaphore = MaxConcurrent)
    /\ \A p \in Solo :
         /\ (op[p].name = "retry_all_pending") ~> (op[p].name # "retry_all_pending")
         /\ \A k \in ItemIds : RetryWaiting(p, k) ~> ~RetryWaiting(p, k)
    /\ [][\A p \in Solo : (op[p].pc = "gather" /\ op'[p].pc # "gather")
                               => sem'[p] = op[p].arg]_vars

\* a lookup_batch call is over after a task of it raised and after another
\* task had to wait for the permit
C40_Witness ==
    /\ batchPc = "done"
    /\ \E i \in Tasks : pc[i] = "failed"

\* a retry_all_pending run of two tasks and one permit in which a task
\* raised is about to end
C40_RetryWitness ==
    \E p \in Solo :
        /\ op[p].pc = "gather"
        /\ op[p].arg = 1
        /\ \A k \in ItemIds : ctx[p][k].pc = "done"
        /\ op[p].tally.processed < MaxItems
====
